---- MODULE Spec2Model ----
(***************************************************************************)
(* Cache-aside layer of the property listings application.                 *)
(*                                                                         *)
(*   properties/models.py   Property (the Entry Repository's records)      *)
(*   properties/utils.py    get_all_properties, get_property_by_id,        *)
(*                          cache_property_queryset,                       *)
(*                          get_cached_properties_by_type,                 *)
(*                          invalidate_property_cache                      *)
(*   properties/signals.py  check_property_changes (pre_save),             *)
(*                          invalidate_cache_on_save (post_save),          *)
(*                          invalidate_cache_on_delete (post_delete)       *)
(*   settings.py            CACHES['default'] (django_redis)               *)
(*                                                                         *)
(* Two granularities are modelled.  In Spec and SpecFault every call of a  *)
(* utility or of Property.save()/delete() is one action (the whole         *)
(* handler, its signal receivers included), and the variable last records  *)
(* what the call did.  In SpecConc the same code runs as separate backend  *)
(* steps of concurrent request handlers.                                   *)
(***************************************************************************)
EXTENDS Integers, Sequences, FiniteSets, TLC

(* ---------------------------------------------------------------- bounds *)
MaxId == 1
NumTypes == 2
NumTitles == 1
MaxCreated == 2
MaxConcCreated == 1

(* ------------------------------------------------------------ data model *)
UUIDS == <<"u1", "u2", "u3">>
Ids == {UUIDS[i] : i \in 1..MaxId}

TYPE_NAMES == <<"house", "apartment", "condo", "townhouse", "villa", "cabin", "studio", "loft">>
PROPERTY_TYPES == {TYPE_NAMES[i] : i \in 1..NumTypes}

Titles == 1..NumTitles

\* A Property row: the fields the cache layer reads, plus title for the rest.
Property(id, t, a, f, ti, cr) ==
  [id |-> id, property_type |-> t, is_available |-> a, featured |-> f,
   title |-> ti, created_at |-> cr]

(* ------------------------------------------------------------ cache keys *)
Key(kind, arg) == [kind |-> kind, arg |-> arg]
all_properties == Key("all_properties", "")
all_properties_timestamp == Key("all_properties_timestamp", "")
featured_properties == Key("featured_properties", "")
featured_properties_timestamp == Key("featured_properties_timestamp", "")
property_key(id) == Key("property_", id)
properties_type_key(t) == Key("properties_type_", t)

\* f'{cache_key}_timestamp'
timestamp_key(k) ==
  IF k = all_properties THEN all_properties_timestamp ELSE featured_properties_timestamp

(* ------------------------------------------- key names in the backend    *)
\* Names are sequences of characters, so that a glob pattern is matched
\* against them character by character.
KEY_PREFIX == <<"p", "r", "o", "p", "e", "r", "t", "y", "_", "l", "i", "s", "t", "i", "n", "g", "s">>
KEY_VERSION == <<"1">>

IdChars(id) == <<"u">> \o (IF id = "u1" THEN <<"1">> ELSE IF id = "u2" THEN <<"2">> ELSE <<"3">>)

TypeChars(t) ==
  IF t = "house" THEN <<"h", "o", "u", "s", "e">>
  ELSE IF t = "apartment" THEN <<"a", "p", "a", "r", "t", "m", "e", "n", "t">>
  ELSE IF t = "condo" THEN <<"c", "o", "n", "d", "o">>
  ELSE IF t = "townhouse" THEN <<"t", "o", "w", "n", "h", "o", "u", "s", "e">>
  ELSE IF t = "villa" THEN <<"v", "i", "l", "l", "a">>
  ELSE IF t = "cabin" THEN <<"c", "a", "b", "i", "n">>
  ELSE IF t = "studio" THEN <<"s", "t", "u", "d", "i", "o">>
  ELSE <<"l", "o", "f", "t">>

\* The name the utilities and receivers give a key.
KeyName(k) ==
  IF k.kind = "property_" THEN <<"p", "r", "o", "p", "e", "r", "t", "y", "_">> \o IdChars(k.arg)
  ELSE IF k.kind = "properties_type_" THEN <<"p", "r", "o", "p", "e", "r", "t", "i", "e", "s", "_", "t", "y", "p", "e", "_">> \o TypeChars(k.arg)
  ELSE IF k.kind = "all_properties" THEN <<"a", "l", "l", "_", "p", "r", "o", "p", "e", "r", "t", "i", "e", "s">>
  ELSE IF k.kind = "all_properties_timestamp" THEN <<"a", "l", "l", "_", "p", "r", "o", "p", "e", "r", "t", "i", "e", "s", "_", "t", "i", "m", "e", "s", "t", "a", "m", "p">>
  ELSE IF k.kind = "featured_properties" THEN <<"f", "e", "a", "t", "u", "r", "e", "d", "_", "p", "r", "o", "p", "e", "r", "t", "i", "e", "s">>
  ELSE <<"f", "e", "a", "t", "u", "r", "e", "d", "_", "p", "r", "o", "p", "e", "r", "t", "i", "e", "s", "_", "t", "i", "m", "e", "s", "t", "a", "m", "p">>

\* django.core.cache make_key: KEY_PREFIX:VERSION:key
make_key(k) == KEY_PREFIX \o <<":">> \o KEY_VERSION \o <<":">> \o KeyName(k)

\* Redis glob matching with "*" as the only wildcard.
RECURSIVE glob_match(_, _)
glob_match(pattern, name) ==
  IF pattern = <<>> THEN name = <<>>
  ELSE IF Head(pattern) = "*"
    THEN glob_match(Tail(pattern), name)
         \/ (name # <<>> /\ glob_match(pattern, Tail(name)))
  ELSE name # <<>> /\ Head(name) = Head(pattern) /\ glob_match(Tail(pattern), Tail(name))

\* Every key the utilities and receivers can write.
KeySpace ==
  {all_properties, all_properties_timestamp, featured_properties, featured_properties_timestamp}
  \cup {property_key(UUIDS[i]) : i \in 1..Len(UUIDS)}
  \cup {properties_type_key(TYPE_NAMES[i]) : i \in 1..Len(TYPE_NAMES)}

\* pattern = "property_listings:*property*"
BULK_PATTERN == <<"p", "r", "o", "p", "e", "r", "t", "y", "_", "l", "i", "s", "t", "i", "n", "g", "s", ":", "*", "p", "r", "o", "p", "e", "r", "t", "y", "*">>

\* The keys redis_conn.keys(pattern) can return.
keys_matching(pattern) == {k \in KeySpace : glob_match(pattern, make_key(k))}

bulk_keys == keys_matching(BULK_PATTERN)

(* -------------------------------------------------- settings.py, CACHES  *)
IGNORE_EXCEPTIONS == FALSE

(* --------------------------------------------------------------- TTLs   *)
TTL_ALL == 3600
TTL_PROPERTY == 7200
\* Mutant of TTL_TYPE: the listings by type are kept twice as long as the
\* full listing.
TTL_TYPE_twice_all == TTL_ALL + TTL_ALL

TTL_TYPE == 1800
TTL_QUERYSET_DEFAULT == 3600

(* ------------------------------------------------- Cache Store Adapter   *)
\* The cache is a partial function: key -> [val, ttl, age], age being the
\* seconds since the value was written.
\* Mutant of cache_get: every lookup is a miss.
cache_get_always_miss(c, k) == {}

cache_get(c, k) == IF k \in DOMAIN c THEN {c[k].val} ELSE {}

\* Mutant of cache_set: the timeout is not passed on, the backend default
\* of a day applies.
cache_set_day_timeout(c, k, v, timeout) ==
  [x \in (DOMAIN c) \cup {k} |->
     IF x = k THEN [val |-> v, ttl |-> 24 * 3600, age |-> 0] ELSE c[x]]

cache_set(c, k, v, timeout) ==
  [x \in (DOMAIN c) \cup {k} |->
     IF x = k THEN [val |-> v, ttl |-> timeout, age |-> 0] ELSE c[x]]

\* The clock advances by seconds: the keys whose time-to-live has run out.
expired(c, seconds) == {k \in DOMAIN c : c[k].age + seconds >= c[k].ttl}

\* The cache after the clock has advanced by seconds.
cache_after(c, seconds) ==
  [k \in (DOMAIN c) \ expired(c, seconds) |-> [c[k] EXCEPT !.age = @ + seconds]]

cache_delete(c, k) == [x \in (DOMAIN c) \ {k} |-> c[x]]

RECURSIVE cache_delete_many(_, _)
cache_delete_many(c, ks) ==
  IF ks = <<>> THEN c ELSE cache_delete_many(cache_delete(c, Head(ks)), Tail(ks))

\* Cache call number n of an operation fails when the backend became
\* unreachable at call number f of that operation (f = 0: healthy).
Fails(f, n) == f # 0 /\ n >= f

(* ---------------------------------------------------- Entry Repository   *)
\* The table is a partial function: id -> Property row.
Rows(d) == {d[i] : i \in DOMAIN d}

RECURSIVE order_by_created_desc(_)
order_by_created_desc(S) ==
  IF S = {} THEN <<>>
  ELSE LET m == CHOOSE e \in S : \A x \in S : x.created_at <= e.created_at
       IN <<m>> \o order_by_created_desc(S \ {m})

\* Property.objects.all().order_by('-created_at')
objects_all(d) == order_by_created_desc(Rows(d))

\* Mutant of objects_filter_type: the is_available filter is left out.
objects_filter_type_any_availability(d, t) ==
  order_by_created_desc({r \in Rows(d) : r.property_type = t})

\* Property.objects.filter(property_type=t, is_available=True).order_by('-created_at')
objects_filter_type(d, t) ==
  order_by_created_desc({r \in Rows(d) : r.property_type = t /\ r.is_available})

\* Property.objects.filter(featured=True).order_by('-created_at')
objects_filter_featured(d) == order_by_created_desc({r \in Rows(d) : r.featured})

\* Property.objects.get(id=...): the row, or DoesNotExist (the empty set)
objects_get(d, id) == IF id \in DOMAIN d THEN {d[id]} ELSE {}

(* ------------------------------------------------------- call records    *)
Ev(call, k) == [call |-> call, key |-> k]
DbEv(call) == Ev(call, Key("db", ""))

Outcome(res, val, hit, c, tr) ==
  [res |-> res, val |-> val, hit |-> hit, cache |-> c, trace |-> tr]

\* Mutant of DeleteLoop: every delete issued is counted, whether or not the
\* key was there.
DeleteLoop_counts_issued(c, ks, f, base) ==
  LET n == Len(ks)
      done == IF f = 0 \/ f - base > n THEN n
              ELSE IF f - base - 1 > 0 THEN f - base - 1 ELSE 0
      raised == done < n /\ ~IGNORE_EXCEPTIONS
      issued == IF raised THEN done + 1 ELSE n
  IN [cache |-> cache_delete_many(c, SubSeq(ks, 1, done)),
      raised |-> raised,
      calls |-> issued,
      deleted_count |-> done,
      trace |-> [i \in 1..issued |-> Ev("cache.delete", ks[i])]]

\* for key in keys: if cache.delete(key): deleted_count += 1
\* with the cache calls numbered base+1, base+2, ...
\* done: how many deletes took effect; raised: an exception left the loop.
DeleteLoop(c, ks, f, base) ==
  LET n == Len(ks)
      done == IF f = 0 \/ f - base > n THEN n
              ELSE IF f - base - 1 > 0 THEN f - base - 1 ELSE 0
      raised == done < n /\ ~IGNORE_EXCEPTIONS
      issued == IF raised THEN done + 1 ELSE n
  IN [cache |-> cache_delete_many(c, SubSeq(ks, 1, done)),
      raised |-> raised,
      calls |-> issued,
      deleted_count |-> Cardinality({i \in 1..done :
                          /\ ks[i] \in DOMAIN c
                          /\ \A j \in 1..(i - 1) : ks[j] # ks[i]}),
      trace |-> [i \in 1..issued |-> Ev("cache.delete", ks[i])]]

(* ------------------------------------------------ utils.py, the reads    *)
\* get_all_properties(): force_refresh is read at line 24 but is neither a
\* parameter nor a global, so the call raises NameError before any backend
\* call; called with force_refresh=True (views.py:31) it raises TypeError.
get_all_properties(c, d, passes_force_refresh) ==
  Outcome(IF passes_force_refresh THEN "TypeError" ELSE "NameError", {}, FALSE, c, <<>>)

\* Mutant of get_property_by_id: "except Exception" in place of
\* "except Property.DoesNotExist", so a repository error returns None.
get_property_by_id_broad_except(c, d, property_id, f, dbf) ==
  LET cache_key == property_key(property_id)
      t1 == <<Ev("cache.get", cache_key)>>
      t2 == Append(t1, DbEv("db.get"))
      t3 == Append(t2, Ev("cache.set", cache_key))
      cached_property == IF Fails(f, 1) THEN {} ELSE cache_get(c, cache_key)
  IN IF Fails(f, 1) /\ ~IGNORE_EXCEPTIONS
       THEN Outcome("ConnectionInterrupted", {}, FALSE, c, t1)
     ELSE IF cached_property # {}
       THEN Outcome("ok", cached_property, TRUE, c, t1)
     ELSE IF dbf \/ objects_get(d, property_id) = {}
       THEN Outcome("ok", {}, FALSE, c, t2)
     ELSE IF Fails(f, 2)
       THEN Outcome("ConnectionInterrupted", {}, FALSE, c, t3)
     ELSE Outcome("ok", objects_get(d, property_id), FALSE,
                  cache_set(c, cache_key, d[property_id], TTL_PROPERTY), t3)

\* Mutant of get_property_by_id: on Property.DoesNotExist a "NotFound" marker
\* is cached under the key before None is returned.
get_property_by_id_caches_not_found(c, d, property_id, f, dbf) ==
  LET cache_key == property_key(property_id)
      t1 == <<Ev("cache.get", cache_key)>>
      t2 == Append(t1, DbEv("db.get"))
      t3 == Append(t2, Ev("cache.set", cache_key))
      cached_property == IF Fails(f, 1) THEN {} ELSE cache_get(c, cache_key)
  IN IF Fails(f, 1) /\ ~IGNORE_EXCEPTIONS
       THEN Outcome("ConnectionInterrupted", {}, FALSE, c, t1)
     ELSE IF cached_property = {"NotFound"}
       THEN Outcome("ok", {}, TRUE, c, t1)
     ELSE IF cached_property # {}
       THEN Outcome("ok", cached_property, TRUE, c, t1)
     ELSE IF dbf
       THEN Outcome("DatabaseError", {}, FALSE, c, t2)
     ELSE IF Fails(f, 2)
       THEN Outcome("ConnectionInterrupted", {}, FALSE, c, t3)
     ELSE IF objects_get(d, property_id) = {}
       THEN Outcome("ok", {}, FALSE,
                    cache_set(c, cache_key, "NotFound", TTL_PROPERTY), t3)
     ELSE Outcome("ok", objects_get(d, property_id), FALSE,
                  cache_set(c, cache_key, d[property_id], TTL_PROPERTY), t3)

\* get_property_by_id(property_id); dbf: the repository call fails.
get_property_by_id(c, d, property_id, f, dbf) ==
  LET cache_key == property_key(property_id)
      t1 == <<Ev("cache.get", cache_key)>>
      t2 == Append(t1, DbEv("db.get"))
      t3 == Append(t2, Ev("cache.set", cache_key))
      cached_property == IF Fails(f, 1) THEN {} ELSE cache_get(c, cache_key)
  IN IF Fails(f, 1) /\ ~IGNORE_EXCEPTIONS
       THEN Outcome("ConnectionInterrupted", {}, FALSE, c, t1)
     ELSE IF cached_property # {}
       THEN Outcome("ok", cached_property, TRUE, c, t1)
     ELSE IF dbf
       THEN Outcome("DatabaseError", {}, FALSE, c, t2)
     ELSE IF objects_get(d, property_id) = {}
       THEN Outcome("ok", {}, FALSE, c, t2)
     ELSE IF Fails(f, 2)
       THEN IF IGNORE_EXCEPTIONS
              THEN Outcome("ok", objects_get(d, property_id), FALSE, c, t3)
              ELSE Outcome("ConnectionInterrupted", {}, FALSE, c, t3)
     ELSE Outcome("ok", objects_get(d, property_id), FALSE,
                  cache_set(c, cache_key, d[property_id], TTL_PROPERTY), t3)

\* Mutant of get_cached_properties_by_type: a timestamp is stored next to the
\* listing, as get_all_properties does.
get_cached_properties_by_type_stores_timestamp(c, d, property_type, force_refresh, f, dbf) ==
  LET cache_key == properties_type_key(property_type)
      b == IF force_refresh THEN 1 ELSE 0
      t0 == IF force_refresh THEN <<Ev("cache.delete", cache_key)>> ELSE <<>>
      c1 == IF force_refresh /\ ~Fails(f, 1) THEN cache_delete(c, cache_key) ELSE c
      t1 == Append(t0, Ev("cache.get", cache_key))
      t2 == Append(t1, DbEv("db.filter"))
      t3 == Append(Append(t2, Ev("cache.set", cache_key)), Ev("cache.set", all_properties_timestamp))
      cached_data == IF Fails(f, b + 1) THEN {} ELSE cache_get(c1, cache_key)
      queryset == objects_filter_type(d, property_type)
  IN IF force_refresh /\ Fails(f, 1) /\ ~IGNORE_EXCEPTIONS
       THEN Outcome("ConnectionInterrupted", {}, FALSE, c, t0)
     ELSE IF Fails(f, b + 1) /\ ~IGNORE_EXCEPTIONS
       THEN Outcome("ConnectionInterrupted", {}, FALSE, c1, t1)
     ELSE IF cached_data # {} /\ ~force_refresh
       THEN Outcome("ok", cached_data, TRUE, c1, t1)
     ELSE IF dbf
       THEN Outcome("DatabaseError", {}, FALSE, c1, t2)
     ELSE IF Fails(f, b + 2)
       THEN IF IGNORE_EXCEPTIONS
              THEN Outcome("ok", {queryset}, FALSE, c1, t3)
              ELSE Outcome("ConnectionInterrupted", {}, FALSE, c1, t3)
     ELSE Outcome("ok", {queryset}, FALSE,
                  cache_set(c1, cache_key, queryset, TTL_TYPE), t3)

\* get_cached_properties_by_type(property_type, force_refresh).  The queryset
\* is lazy: the repository is read when cache.set pickles it.
get_cached_properties_by_type(c, d, property_type, force_refresh, f, dbf) ==
  LET cache_key == properties_type_key(property_type)
      b == IF force_refresh THEN 1 ELSE 0
      t0 == IF force_refresh THEN <<Ev("cache.delete", cache_key)>> ELSE <<>>
      c1 == IF force_refresh /\ ~Fails(f, 1) THEN cache_delete(c, cache_key) ELSE c
      t1 == Append(t0, Ev("cache.get", cache_key))
      t2 == Append(t1, DbEv("db.filter"))
      t3 == Append(t2, Ev("cache.set", cache_key))
      cached_data == IF Fails(f, b + 1) THEN {} ELSE cache_get(c1, cache_key)
      queryset == objects_filter_type(d, property_type)
  IN IF force_refresh /\ Fails(f, 1) /\ ~IGNORE_EXCEPTIONS
       THEN Outcome("ConnectionInterrupted", {}, FALSE, c, t0)
     ELSE IF Fails(f, b + 1) /\ ~IGNORE_EXCEPTIONS
       THEN Outcome("ConnectionInterrupted", {}, FALSE, c1, t1)
     ELSE IF cached_data # {} /\ ~force_refresh
       THEN Outcome("ok", cached_data, TRUE, c1, t1)
     ELSE IF dbf
       THEN Outcome("DatabaseError", {}, FALSE, c1, t2)
     ELSE IF Fails(f, b + 2)
       THEN IF IGNORE_EXCEPTIONS
              THEN Outcome("ok", {queryset}, FALSE, c1, t3)
              ELSE Outcome("ConnectionInterrupted", {}, FALSE, c1, t3)
     ELSE Outcome("ok", {queryset}, FALSE,
                  cache_set(c1, cache_key, queryset, TTL_TYPE), t3)

\* The querysets cache_property_queryset is given for the two listing keys.
queryset_for(d, cache_key) ==
  IF cache_key = all_properties THEN objects_all(d) ELSE objects_filter_featured(d)

\* cache_property_queryset(queryset, cache_key, timeout=3600)
cache_property_queryset(c, d, cache_key, f, dbf) ==
  LET t1 == <<DbEv("db.filter"), Ev("cache.set", cache_key)>>
      t2 == Append(t1, Ev("cache.set", timestamp_key(cache_key)))
      c1 == IF Fails(f, 1) THEN c
            ELSE cache_set(c, cache_key, queryset_for(d, cache_key), TTL_QUERYSET_DEFAULT)
      c2 == IF Fails(f, 2) THEN c1
            ELSE cache_set(c1, timestamp_key(cache_key), "now", TTL_QUERYSET_DEFAULT)
  IN IF dbf
       THEN Outcome("DatabaseError", {}, FALSE, c, <<DbEv("db.filter")>>)
     ELSE IF Fails(f, 1) /\ ~IGNORE_EXCEPTIONS
       THEN Outcome("ConnectionInterrupted", {}, FALSE, c, t1)
     ELSE IF Fails(f, 2) /\ ~IGNORE_EXCEPTIONS
       THEN Outcome("ConnectionInterrupted", {}, FALSE, c1, t2)
     ELSE Outcome("ok", {}, FALSE, c2, t2)

(* ----------------------------------------- utils.py, the invalidation    *)
\* Mutant of invalidate_keys: the per-entry key is left out.
invalidate_keys_no_property(property_id) ==
  IF property_id # ""
    THEN <<all_properties>>
    ELSE <<all_properties, all_properties_timestamp>>
         \o [i \in 1..NumTypes |-> properties_type_key(TYPE_NAMES[i])]

\* Mutant of invalidate_keys: featured_properties is deleted as well.
invalidate_keys_with_featured(property_id) ==
  IF property_id # ""
    THEN <<property_key(property_id), all_properties, featured_properties>>
    ELSE <<all_properties, all_properties_timestamp, featured_properties>>
         \o [i \in 1..NumTypes |-> properties_type_key(TYPE_NAMES[i])]

\* The key list of invalidate_property_cache; property_id = "" is None.
invalidate_keys(property_id) ==
  IF property_id # ""
    THEN <<property_key(property_id), all_properties>>
    ELSE <<all_properties, all_properties_timestamp>>
         \o [i \in 1..NumTypes |-> properties_type_key(TYPE_NAMES[i])]

\* invalidate_property_cache(property_id=None) -> deleted_count
invalidate_property_cache(c, property_id, f) ==
  LET r == DeleteLoop(c, invalidate_keys(property_id), f, 0)
  IN IF r.raised
       THEN Outcome("ConnectionInterrupted", {}, FALSE, r.cache, r.trace)
       ELSE Outcome("ok", {r.deleted_count}, FALSE, r.cache, r.trace)

\* invalidate_all_property_caches(): redis_conn.keys(pattern), then one
\* redis_conn.delete(*keys) of the keys found; every exception is caught and
\* logged.  val: the keys deleted.
invalidate_all_property_caches(c, f) ==
  LET t1 == <<Ev("redis.keys", Key("pattern", ""))>>
      t2 == Append(t1, Ev("redis.delete", Key("keys", "")))
      keys == (DOMAIN c) \cap bulk_keys
  IN IF Fails(f, 1) THEN Outcome("ok", {}, FALSE, c, t1)
     ELSE IF keys = {} THEN Outcome("ok", {}, FALSE, c, t1)
     ELSE IF Fails(f, 2) THEN Outcome("ok", {}, FALSE, c, t2)
     ELSE Outcome("ok", keys, FALSE, [k \in (DOMAIN c) \ keys |-> c[k]], t2)

(* ------------------------------------------- utils.py, the metrics       *)
\* Percentages are kept in hundredths: round(x, 2) of Python is an integer
\* number of hundredths.  round_half_even(n, d) is n / d rounded to the
\* nearest integer, a tie going to the even one.
round_half_even(n, d) ==
  LET q == n \div d
      r == n % d
  IN IF 2 * r < d THEN q
     ELSE IF 2 * r > d THEN q + 1
     ELSE IF q % 2 = 0 THEN q ELSE q + 1

\* Mutant of percent_rounded: the percentage is cut to a whole number.
percent_truncated(part, whole) ==
  IF whole > 0 THEN 100 * ((part * 100) \div whole) ELSE 0

\* x = 0; if whole > 0: x = (part / whole) * 100; ... round(x, 2)
percent_rounded(part, whole) ==
  IF whole > 0 THEN round_half_even(part * 10000, whole) ELSE 0

\* The cursor of the key scan: the string '0' at first, then the integer
\* redis_conn.scan returns.
Cursor(is_str, n) == [str |-> is_str, n |-> n]

\* Mutant of INITIAL_CURSOR: the integer 0.
INITIAL_CURSOR_int == Cursor(FALSE, 0)

\* cursor = '0'
INITIAL_CURSOR == Cursor(TRUE, 0)

\* while cursor != 0: cursor, keys = redis_conn.scan(cursor=cursor if cursor
\* != '0' else 0, ...); all_keys.extend(keys)
\* script: what the backend answers to the first, second, ... scan call.
\* stopped: the loop has ended (it has not when the answers run out before a
\* cursor 0).
RECURSIVE scan_loop(_, _, _, _)
scan_loop(script, cursor, calls, all_keys) ==
  IF ~(cursor.str \/ cursor.n # 0)
    THEN [calls |-> calls, all_keys |-> all_keys, stopped |-> TRUE]
  ELSE IF Len(calls) >= Len(script)
    THEN [calls |-> calls, all_keys |-> all_keys, stopped |-> FALSE]
  ELSE LET arg == IF cursor.str /\ cursor.n = 0 THEN 0 ELSE cursor.n
           answer == script[Len(calls) + 1]
       IN scan_loop(script, Cursor(FALSE, answer.cursor), Append(calls, arg),
                    all_keys \o answer.keys)

BackendEv(call) == Ev(call, Key("backend", ""))

\* health_check['components'] = {}
NO_COMPONENTS == [x \in {} |-> x]

\* What a function of the reporter gives back: res "ok" with the dict it
\* returns, "raised" when an exception leaves it, "loops" when it does not
\* return.
Report(res, doc, tr) == [res |-> res, doc |-> doc, trace |-> tr]

\* {'status': 'error', 'error': str(e), 'timestamp': ...}
ErrorDoc == [status |-> "error"]

\* get_redis_cache_metrics(connection_alias).  info: the counters of INFO;
\* fail: the kind of backend call that fails ("none": the backend is well).
get_redis_cache_metrics(info, script, fail) ==
  LET t1 == <<BackendEv("get_redis_connection")>>
      t2 == Append(t1, BackendEv("info"))
      hits == info.keyspace_hits
      misses == info.keyspace_misses
      total_operations == hits + misses
      scan == scan_loop(script, INITIAL_CURSOR, <<>>, <<>>)
      t3 == t2 \o [i \in 1..Len(scan.calls) |-> BackendEv("scan")]
      cache_stats ==
        IF fail = "scan" THEN [error |-> TRUE]
        ELSE [error |-> FALSE,
              total_keys_scanned |-> Len(scan.all_keys),
              keys_with_ttl |-> IF fail = "ttl" THEN 0 ELSE Len(scan.all_keys)]
  IN IF fail = "connection" THEN Report("ok", ErrorDoc, t1)
     ELSE IF fail = "info" THEN Report("ok", ErrorDoc, t2)
     ELSE IF fail # "scan" /\ ~scan.stopped THEN Report("loops", ErrorDoc, t3)
     ELSE Report("ok",
            [status |-> "success",
             hits |-> hits, misses |-> misses, total_operations |-> total_operations,
             hit_ratio_percent |-> percent_rounded(hits, total_operations),
             memory_usage_percent |-> percent_rounded(info.used_memory, info.maxmemory),
             cache_stats |-> cache_stats,
             connected_clients |-> info.connected_clients,
             max_clients |-> info.maxclients,
             scan_calls |-> IF fail = "scan" THEN <<>> ELSE scan.calls,
             all_keys |-> IF fail = "scan" THEN <<>> ELSE scan.all_keys],
            IF fail = "scan" THEN Append(t2, BackendEv("scan")) ELSE t3)

\* The thresholds of analyze_cache_patterns, in hundredths of a percent.
hit_ratio_status(hit_ratio) ==
  IF hit_ratio < 50 * 100 THEN "POOR"
  ELSE IF hit_ratio < 80 * 100 THEN "FAIR"
  ELSE "EXCELLENT"

memory_status(memory_usage) ==
  IF memory_usage > 90 * 100 THEN "CRITICAL"
  ELSE IF memory_usage > 70 * 100 THEN "HIGH"
  ELSE "HEALTHY"

\* analyze_cache_patterns(connection_alias)
analyze_cache_patterns(info, script, fail) ==
  LET m == get_redis_cache_metrics(info, script, fail)
      tr == <<BackendEv("get_redis_connection")>> \o m.trace
  IN IF fail = "connection" THEN Report("ok", ErrorDoc, <<BackendEv("get_redis_connection")>>)
     ELSE IF m.res # "ok" THEN Report(m.res, ErrorDoc, tr)
     ELSE IF m.doc.status = "error" THEN Report("ok", m.doc, tr)
     ELSE Report("ok",
            [status |-> "success",
             hit_ratio_status |-> hit_ratio_status(m.doc.hit_ratio_percent),
             memory_status |-> memory_status(m.doc.memory_usage_percent),
             hit_ratio |-> m.doc.hit_ratio_percent,
             memory_usage_percent |-> m.doc.memory_usage_percent,
             total_operations |-> m.doc.total_operations],
            tr)

\* Mutant of overall_status: a WARNING component is passed over.
overall_status_ignores_warning(components) ==
  IF \E c \in DOMAIN components : components[c] = "CRITICAL" THEN "CRITICAL"
  ELSE "HEALTHY"

\* critical_count, warning_count and the overall health status
overall_status(components) ==
  IF \E c \in DOMAIN components : components[c] = "CRITICAL" THEN "CRITICAL"
  ELSE IF \E c \in DOMAIN components : components[c] = "WARNING" THEN "WARNING"
  ELSE "HEALTHY"

\* max(1, max_clients)
AtLeastOne(n) == IF n > 1 THEN n ELSE 1

\* get_cache_health_check(connection_alias); ping_ms: the time the ping took.
get_cache_health_check(info, script, fail, ping_ms) ==
  LET t1 == <<BackendEv("get_redis_connection")>>
      t2 == Append(t1, BackendEv("ping"))
      m == get_redis_cache_metrics(info, script, fail)
      tr == t2 \o m.trace
      unreachable == [status |-> "error", overall_status |-> "UNREACHABLE"]
      connectivity == IF ping_ms < 10 THEN "HEALTHY" ELSE "SLOW"
      hit_ratio == m.doc.hit_ratio_percent
      mem_usage == m.doc.memory_usage_percent
      connections == m.doc.connected_clients
      max_clients == AtLeastOne(m.doc.max_clients)
      components ==
        [hit_ratio |-> IF hit_ratio > 70 * 100 THEN "HEALTHY"
                       ELSE IF hit_ratio > 40 * 100 THEN "WARNING" ELSE "CRITICAL",
         memory_usage |-> IF mem_usage < 80 * 100 THEN "HEALTHY"
                          ELSE IF mem_usage < 90 * 100 THEN "WARNING" ELSE "CRITICAL",
         connections |-> IF connections * 100 < 80 * max_clients THEN "HEALTHY"
                         ELSE IF connections * 100 < 90 * max_clients THEN "WARNING"
                         ELSE "CRITICAL"]
  IN IF fail = "connection" THEN Report("ok", unreachable, t1)
     ELSE IF fail = "ping" THEN Report("ok", unreachable, t2)
     ELSE IF m.res # "ok" THEN Report(m.res, ErrorDoc, tr)
     ELSE IF m.doc.status = "success"
       THEN Report("ok",
              [status |-> "success", connectivity |-> connectivity,
               components |-> components,
               overall_status |-> overall_status(components)],
              tr)
     ELSE Report("ok",
            [status |-> "success", connectivity |-> connectivity,
             components |-> NO_COMPONENTS,
             overall_status |-> "ERROR"],
            tr)

\* get_cache_performance_report(days)
get_cache_performance_report(info, script, fail) ==
  LET m == get_redis_cache_metrics(info, script, fail)
  IN IF m.res # "ok" THEN m
     ELSE IF m.doc.status # "success" THEN m
     ELSE Report("ok",
            [status |-> "success",
             average_hit_ratio |-> m.doc.hit_ratio_percent,
             recommendations |->
               (IF m.doc.hit_ratio_percent < 60 * 100 THEN {"cache warming", "review TTLs"} ELSE {})
               \cup (IF m.doc.memory_usage_percent > 75 * 100
                       THEN {"monitor memory", "review eviction policy"} ELSE {})],
            m.trace)

\* Mutant of clear_cache_and_get_metrics: invalidate_property_cache() is
\* called before the try block.
clear_cache_and_get_metrics_clear_outside_try(c, info, script, fail) ==
  LET inv == invalidate_property_cache(c, "", IF fail = "delete" THEN 1 ELSE 0)
      m == get_redis_cache_metrics(info, script, fail)
  IN IF inv.res # "ok"
       THEN [res |-> "raised", doc |-> ErrorDoc, trace |-> inv.trace, cache |-> inv.cache]
     ELSE [res |-> m.res, doc |-> m.doc, trace |-> inv.trace \o m.trace, cache |-> inv.cache]

\* clear_cache_and_get_metrics(connection_alias): the cache after the call
\* goes with the report.
clear_cache_and_get_metrics(c, info, script, fail) ==
  LET inv == invalidate_property_cache(c, "", IF fail = "delete" THEN 1 ELSE 0)
      m == get_redis_cache_metrics(info, script, fail)
  IN IF inv.res # "ok"
       THEN [res |-> "ok", doc |-> ErrorDoc, trace |-> inv.trace, cache |-> inv.cache]
     ELSE [res |-> m.res,
           doc |-> IF m.doc.status = "success"
                     THEN [status |-> "success", metrics |-> m.doc,
                           keys_invalidated |-> inv.val]
                     ELSE m.doc,
           trace |-> inv.trace \o m.trace, cache |-> inv.cache]

(* --------------------------------------------- signals.py, the writes    *)
\* What the receivers read of an instance.
Brief(r) == [id |-> r.id, property_type |-> r.property_type, featured |-> r.featured]

\* Mutant of check_property_changes_keys: the old type's listing is kept.
check_property_changes_keys_no_type(old, instance) ==
  IF old = {} THEN <<>>
  ELSE LET old_instance == CHOOSE o \in old : TRUE
       IN IF old_instance.featured # instance.featured
            THEN <<featured_properties>> ELSE <<>>

\* check_property_changes (pre_save): instance.pk is a UUID, always truthy;
\* Property.DoesNotExist (old = {}) is passed over.
check_property_changes_keys(old, instance) ==
  IF old = {} THEN <<>>
  ELSE LET old_instance == CHOOSE o \in old : TRUE
       IN (IF old_instance.property_type # instance.property_type
             THEN <<properties_type_key(old_instance.property_type)>> ELSE <<>>)
          \o (IF old_instance.featured # instance.featured
                THEN <<featured_properties>> ELSE <<>>)

\* Mutant of invalidate_cache_on_save_keys: property_cache_key is not deleted.
invalidate_cache_on_save_keys_no_property(instance) ==
  <<all_properties, all_properties_timestamp, properties_type_key(instance.property_type)>>
  \o (IF instance.featured THEN <<featured_properties>> ELSE <<>>)

\* Mutant of invalidate_cache_on_save_keys: the listings of all types are
\* deleted, as by the form of invalidate_property_cache without an id.
invalidate_cache_on_save_keys_every_type(instance) ==
  <<all_properties, all_properties_timestamp>>
  \o [i \in 1..Len(TYPE_NAMES) |-> properties_type_key(TYPE_NAMES[i])]
  \o (IF instance.featured THEN <<featured_properties>> ELSE <<>>)
  \o <<property_key(instance.id)>>

\* Mutant of invalidate_cache_on_save_keys: the type listing is not deleted.
invalidate_cache_on_save_keys_no_type(instance) ==
  <<all_properties, all_properties_timestamp>>
  \o (IF instance.featured THEN <<featured_properties>> ELSE <<>>)
  \o <<property_key(instance.id)>>

\* Mutant of invalidate_cache_on_save_keys: the timestamp key is not deleted.
invalidate_cache_on_save_keys_no_timestamp(instance) ==
  <<all_properties, properties_type_key(instance.property_type)>>
  \o (IF instance.featured THEN <<featured_properties>> ELSE <<>>)
  \o <<property_key(instance.id)>>

\* invalidate_cache_on_save (post_save): cache_keys_to_delete, then
\* property_cache_key.
invalidate_cache_on_save_keys(instance) ==
  <<all_properties, all_properties_timestamp, properties_type_key(instance.property_type)>>
  \o (IF instance.featured THEN <<featured_properties>> ELSE <<>>)
  \o <<property_key(instance.id)>>

\* Mutant of invalidate_cache_on_delete_keys: featured_properties is kept.
invalidate_cache_on_delete_keys_no_featured(instance) ==
  <<all_properties, all_properties_timestamp, properties_type_key(instance.property_type),
    property_key(instance.id)>>

\* invalidate_cache_on_delete (post_delete): cache_keys_to_delete.
invalidate_cache_on_delete_keys(instance) ==
  <<all_properties, all_properties_timestamp, properties_type_key(instance.property_type),
    property_key(instance.id)>>
  \o (IF instance.featured THEN <<featured_properties>> ELSE <<>>)

WriteOutcome(res, c, d, tr) == [res |-> res, cache |-> c, db |-> d, trace |-> tr]

db_put(d, instance) ==
  [x \in (DOMAIN d) \cup {instance.id} |-> IF x = instance.id THEN instance ELSE d[x]]

db_remove(d, id) == [x \in (DOMAIN d) \ {id} |-> d[x]]

\* Property.save(): pre_save receivers, the row written (autocommit), then
\* post_save receivers.  An exception of a receiver leaves save() at once.
save(c, d, instance, f) ==
  LET old == objects_get(d, instance.id)
      pre == DeleteLoop(c, check_property_changes_keys(old, instance), f, 0)
      t1 == <<DbEv("db.get")>> \o pre.trace
      d2 == db_put(d, instance)
      t2 == Append(t1, DbEv("db.commit"))
      post == DeleteLoop(pre.cache, invalidate_cache_on_save_keys(instance), f, pre.calls)
  IN IF pre.raised THEN WriteOutcome("ConnectionInterrupted", pre.cache, d, t1)
     ELSE IF post.raised
       THEN WriteOutcome("ConnectionInterrupted", post.cache, d2, t2 \o post.trace)
     ELSE WriteOutcome("ok", post.cache, d2, t2 \o post.trace)

\* Property.delete(): the row is deleted and post_delete receivers run inside
\* one transaction, which commits when they have returned and rolls back
\* when one of them raises.
delete(c, d, instance, f) ==
  LET post == DeleteLoop(c, invalidate_cache_on_delete_keys(instance), f, 0)
      t1 == <<DbEv("db.delete")>> \o post.trace
  IN IF post.raised THEN WriteOutcome("ConnectionInterrupted", post.cache, d, t1)
     ELSE WriteOutcome("ok", post.cache, db_remove(d, instance.id), Append(t1, DbEv("db.commit")))

(* ------------------------------------------------------------- state     *)
VARIABLES db, cache, created, invalidated, last, faults, rd, wr, held

vars == <<db, cache, created, invalidated, last, faults, rd, wr, held>>

Empty == [x \in {} |-> x]

CacheCalls(tr) == Cardinality({i \in 1..Len(tr) : tr[i].key.kind # "db"})
DbCalls(tr) == Cardinality({i \in 1..Len(tr) : tr[i].key.kind = "db"})

\* The record of a call: its arguments, what it returned or raised (for a
\* write, val is the set of keys the call removed from the cache), the
\* backend calls it issued in order, and which of them failed (f: the number
\* of the first failed cache call, 0 if none failed; dbf: the repository
\* call failed); after_expiry: the call is a get_property_by_id that follows
\* at once the expiry of its key; again: the call is an invalidate_property_cache that
\* follows at once an invalidate_property_cache of the same argument.
Call(op, id, ptype, force, o, old, inst, after_inv, f, dbf) ==
  [op |-> op, id |-> id, ptype |-> ptype, force |-> force,
   again |-> (op = "invalidate_property_cache" /\ last.op = op /\ last.id = id
              /\ last.res = "ok"),
   after_expiry |-> (op = "get_property_by_id" /\ last.op = "tick"
                     /\ property_key(id) \in last.inst),
   res |-> o.res, val |-> o.val, hit |-> o.hit, trace |-> o.trace,
   old |-> old, inst |-> inst, after_inv |-> after_inv,
   f |-> IF f <= CacheCalls(o.trace) THEN f ELSE 0,
   dbf |-> dbf /\ DbCalls(o.trace) > 0]

NoCall ==
  Call("none", "", "", FALSE, Outcome("ok", {}, FALSE, Empty, <<>>), {}, {}, FALSE, 0, FALSE)

\* Concurrent request handlers: the position of each reading client and of
\* the writer inside the call it is executing.
NumClients == 1
Clients == 1..NumClients

IdleClient == [pc |-> "idle", op |-> "", id |-> "", ptype |-> "", force |-> FALSE,
               val |-> {}, res |-> ""]

\* affected: the cache keys of the entries the completed mutations changed.
\* held: the states of the repository a run is followed through, where they
\* are recorded (SpecHeld).
IdleWriter(affected) == [pc |-> "idle", op |-> "", inst |-> {}, old |-> {}, keys |-> <<>>,
                         affected |-> affected]

Init ==
  /\ db = Empty
  /\ cache = Empty
  /\ created = 0
  /\ invalidated = {}
  /\ last = NoCall
  /\ faults = 0
  /\ rd = [p \in Clients |-> IdleClient]
  /\ wr = IdleWriter({})
  /\ held = {db}

(* ------------------------------------------------- one action per call   *)
\* A run is followed up to its MaxFaults-th failed call; a call is given at
\* most one failing backend.
MaxFaults == 1

FaultGuard(f, dbf) == faults < MaxFaults /\ (f = 0 \/ ~dbf)

EndCall ==
  /\ faults' = IF last'.f # 0 \/ last'.dbf THEN faults + 1 ELSE faults
  /\ UNCHANGED <<rd, wr, held>>

GetAllProperties(passes_force_refresh, f, dbf) ==
  LET o == get_all_properties(cache, db, passes_force_refresh)
  IN /\ FaultGuard(f, dbf)
     /\ cache' = o.cache
     /\ last' = Call("get_all_properties", "", "", passes_force_refresh, o, {}, {}, FALSE, f, dbf)
     /\ UNCHANGED <<db, created, invalidated>>
     /\ EndCall

GetPropertyById(id, f, dbf) ==
  LET o == get_property_by_id(cache, db, id, f, dbf)
  IN /\ FaultGuard(f, dbf)
     /\ cache' = o.cache
     /\ invalidated' = invalidated \ {id}
     /\ last' = Call("get_property_by_id", id, "", FALSE, o, {}, {}, id \in invalidated, f, dbf)
     /\ UNCHANGED <<db, created>>
     /\ EndCall

GetCachedPropertiesByType(t, force_refresh, f, dbf) ==
  LET o == get_cached_properties_by_type(cache, db, t, force_refresh, f, dbf)
  IN /\ FaultGuard(f, dbf)
     /\ cache' = o.cache
     /\ last' = Call("get_cached_properties_by_type", "", t, force_refresh, o, {}, {}, FALSE, f, dbf)
     /\ UNCHANGED <<db, created, invalidated>>
     /\ EndCall

CachePropertyQueryset(k, f, dbf) ==
  LET o == cache_property_queryset(cache, db, k, f, dbf)
  IN /\ FaultGuard(f, dbf)
     /\ cache' = o.cache
     /\ last' = Call("cache_property_queryset", k.kind, "", FALSE, o, {}, {}, FALSE, f, dbf)
     /\ UNCHANGED <<db, created, invalidated>>
     /\ EndCall

InvalidatePropertyCache(property_id, f) ==
  LET o == invalidate_property_cache(cache, property_id, f)
  IN /\ FaultGuard(f, FALSE)
     /\ cache' = o.cache
     /\ invalidated' = IF property_id # "" /\ o.res = "ok"
                         THEN invalidated \cup {property_id} ELSE invalidated
     /\ last' = Call("invalidate_property_cache", property_id, "", FALSE, o, {}, {}, FALSE, f, FALSE)
     /\ UNCHANGED <<db, created>>
     /\ EndCall

InvalidateAllPropertyCaches(f) ==
  LET o == invalidate_all_property_caches(cache, f)
  IN /\ FaultGuard(f, FALSE)
     /\ cache' = o.cache
     /\ last' = Call("invalidate_all_property_caches", "", "", FALSE, o, {}, {}, FALSE, f, FALSE)
     /\ UNCHANGED <<db, created, invalidated>>
     /\ EndCall

Write(op, o, old, instance, f) ==
  /\ FaultGuard(f, FALSE)
  /\ cache' = o.cache
  /\ db' = o.db
  /\ last' = Call(op, instance.id, instance.property_type, FALSE,
                  Outcome(o.res, (DOMAIN cache) \ (DOMAIN o.cache), FALSE, o.cache, o.trace),
                  {Brief(x) : x \in old}, {Brief(instance)}, FALSE, f, FALSE)
  /\ UNCHANGED invalidated
  /\ EndCall

\* Property.objects.create(...): a new row, created_at = now (auto_now_add)
Create(id, t, a, ft, ti, f) ==
  /\ id \notin DOMAIN db
  /\ created < MaxCreated
  /\ created' = created + 1
  /\ LET instance == Property(id, t, a, ft, ti, created + 1)
     IN Write("create", save(cache, db, instance, f), {}, instance, f)

\* instance = Property.objects.get(id=...); fields assigned; instance.save()
Update(id, t, a, ft, ti, f) ==
  /\ id \in DOMAIN db
  /\ UNCHANGED created
  /\ LET instance == Property(id, t, a, ft, ti, db[id].created_at)
     IN Write("update", save(cache, db, instance, f), {db[id]}, instance, f)

\* instance = Property.objects.get(id=...); instance.delete()
Delete(id, f) ==
  /\ id \in DOMAIN db
  /\ UNCHANGED created
  /\ Write("delete", delete(cache, db, db[id], f), {db[id]}, db[id], f)

Reads(f, dbf) ==
  \/ \E b \in BOOLEAN : GetAllProperties(b, f, dbf)
  \/ \E id \in Ids : GetPropertyById(id, f, dbf)
  \/ \E t \in PROPERTY_TYPES, b \in BOOLEAN : GetCachedPropertiesByType(t, b, f, dbf)
  \/ \E k \in {all_properties, featured_properties} : CachePropertyQueryset(k, f, dbf)

Writes(f) ==
  \/ \E id \in Ids \cup {""} : InvalidatePropertyCache(id, f)
  \/ InvalidateAllPropertyCaches(f)
  \/ \E id \in Ids, t \in PROPERTY_TYPES, a \in BOOLEAN, ft \in BOOLEAN, ti \in Titles :
       \/ Create(id, t, a, ft, ti, f)
       \/ Update(id, t, a, ft, ti, f)
  \/ \E id \in Ids : Delete(id, f)

\* Sequential calls, healthy backends.
Next == Reads(0, FALSE) \/ Writes(0)

Spec == Init /\ [][Next]_vars

\* Sequential calls; the cache backend may become unreachable at any cache
\* call of an operation, or the repository call of a read may fail.
\* f ranges over the cache calls an operation can issue: at most 3 in a read,
\* at most 2 + 5 in a save().
MaxReadCall == 3
MaxFaultCall == 7

NextFault ==
  \/ \E f \in 0..MaxReadCall, dbf \in BOOLEAN : Reads(f, dbf)
  \/ \E f \in 0..MaxFaultCall : Writes(f)

SpecFault == Init /\ [][NextFault]_vars

\* The clock advances by TickSeconds; for a tick, inst of the call record is
\* the set of keys that expired.
TickSeconds == 1800

Tick ==
  /\ cache' = cache_after(cache, TickSeconds)
  /\ last' = Call("tick", "", "", FALSE, Outcome("ok", {}, FALSE, cache', <<>>),
                  {}, expired(cache, TickSeconds), FALSE, 0, FALSE)
  /\ UNCHANGED <<db, created, invalidated>>
  /\ EndCall

\* Sequential calls, healthy backends, time passing between them.
NextClock == Next \/ Tick

SpecClock == Init /\ [][NextClock]_vars

\* Sequential calls on the listings by type, healthy backends, with enough
\* rows for a listing to hold more than one.
MaxListingId == 2
ListingIds == {UUIDS[i] : i \in 1..MaxListingId}
IndexOfId(id) == CHOOSE i \in 1..MaxListingId : UUIDS[i] = id

NextListing ==
  \/ \E t \in PROPERTY_TYPES, b \in BOOLEAN : GetCachedPropertiesByType(t, b, 0, FALSE)
  \/ \E id \in ListingIds, t \in PROPERTY_TYPES, a \in BOOLEAN, ft \in BOOLEAN, ti \in Titles :
       \/ Create(id, t, a, ft, ti, 0)
       \/ Update(id, t, a, ft, ti, 0)
  \/ \E id \in ListingIds : Delete(id, 0)

SpecListing == Init /\ [][NextListing]_vars

\* Sequential calls, healthy backends, with two rows and one type more than
\* a row can have had, so that keys of other rows and other types are cached
\* when a row is saved or deleted.
PreciseTypes == {TYPE_NAMES[i] : i \in 1..(NumTypes + 1)}

NextPrecise ==
  \/ \E id \in ListingIds : GetPropertyById(id, 0, FALSE)
  \/ \E t \in PreciseTypes : GetCachedPropertiesByType(t, FALSE, 0, FALSE)
  \/ \E id \in ListingIds, t \in PreciseTypes, ti \in Titles :
       \/ Create(id, t, TRUE, FALSE, ti, 0)
       \/ Update(id, t, TRUE, FALSE, ti, 0)
  \/ \E id \in ListingIds : Delete(id, 0)

SpecPrecise == Init /\ [][NextPrecise]_vars

(* ----------------------------------- stale entries and the passing time *)
\* instance.save() of an existing row whose receivers lose a cache.delete:
\* the row is committed, the delete raises ConnectionInterrupted and the keys
\* after it stay in the cache.  The run goes on after the failed call.
UpdateLosingInvalidation(id, t, ti, f) ==
  /\ id \in DOMAIN db
  /\ LET instance == Property(id, t, TRUE, FALSE, ti, db[id].created_at)
         o == save(cache, db, instance, f)
     IN /\ o.res = "ConnectionInterrupted"
        /\ o.db # db
        /\ cache' = o.cache
        /\ db' = o.db
        /\ last' = Call("update", id, t, FALSE,
                        Outcome(o.res, (DOMAIN cache) \ (DOMAIN o.cache), FALSE, o.cache, o.trace),
                        {Brief(db[id])}, {Brief(instance)}, FALSE, f, FALSE)
  /\ UNCHANGED <<created, invalidated, faults, rd, wr, held>>

\* get_property_by_id(id) racing with instance.save(): the reader misses and
\* reads the row, the writer commits and deletes the keys, the reader then
\* stores the row it read.
RacedUpdate(id, t, ti) ==
  /\ id \in DOMAIN db
  /\ db[id].property_type # t
  /\ LET instance == Property(id, t, TRUE, FALSE, ti, db[id].created_at)
         o == save(cache, db, instance, 0)
     IN /\ cache' = cache_set(o.cache, property_key(id), db[id], TTL_PROPERTY)
        /\ db' = o.db
        /\ last' = Call("update", id, t, FALSE,
                        Outcome(o.res, (DOMAIN cache) \ (DOMAIN o.cache), FALSE, cache', o.trace),
                        {Brief(db[id])}, {Brief(instance)}, FALSE, 0, FALSE)
  /\ UNCHANGED <<created, invalidated, faults, rd, wr, held>>

\* Reads and writes of available rows, writes that leave a stale entry behind,
\* and the passing of time.
NextBackstop ==
  \/ GetAllProperties(FALSE, 0, FALSE)
  \/ \E id \in Ids : GetPropertyById(id, 0, FALSE)
  \/ \E t \in PROPERTY_TYPES : GetCachedPropertiesByType(t, FALSE, 0, FALSE)
  \/ \E id \in Ids, t \in PROPERTY_TYPES, ti \in Titles :
       \/ Create(id, t, TRUE, FALSE, ti, 0)
       \/ Update(id, t, TRUE, FALSE, ti, 0)
       \/ RacedUpdate(id, t, ti)
       \/ \E f \in 1..MaxFaultCall : UpdateLosingInvalidation(id, t, ti, f)
  \/ \E id \in Ids : Delete(id, 0)
  \/ Tick

SpecBackstop == Init /\ [][NextBackstop]_vars

\* Time does not stop: a tick that changes the state is not put off for ever.
SpecBackstopFair == SpecBackstop /\ WF_vars(Tick)

(* --------------------------------- the reporter, one action per call    *)
\* The counters INFO can give, with the values at and around the thresholds.
MaxCounter == 2
CounterValues == (0..MaxCounter) \cup {20, 80}
MemoryLevels == {0, 50, 70, 80, 90, 95}
MaxMemories == {0, 100}
ClientLevels == {1, 85, 95}
PingValues == {5, 50}

Infos ==
  [keyspace_hits : CounterValues, keyspace_misses : CounterValues,
   used_memory : MemoryLevels, maxmemory : MaxMemories,
   connected_clients : ClientLevels, maxclients : {100}]

DefaultInfo ==
  [keyspace_hits |-> 80, keyspace_misses |-> 20, used_memory |-> 50, maxmemory |-> 100,
   connected_clients |-> 1, maxclients |-> 100]

\* The answers of the backend to the scan calls of one snapshot.
MaxBatches == 2
MaxCursor == 2
BatchKeys == {<<>>, <<property_key(UUIDS[1])>>, <<all_properties>>}
Answers == [cursor : 0..MaxCursor, keys : BatchKeys]
Scripts == UNION {[1..n -> Answers] : n \in 1..MaxBatches}
DefaultScript == <<[cursor |-> 0, keys |-> <<>>]>>

MetricsInputs ==
  {[info |-> i, script |-> DefaultScript] : i \in Infos}
  \cup {[info |-> DefaultInfo, script |-> sc] : sc \in Scripts}

SnapshotFailures == {"none", "connection", "info", "scan", "ttl"}

ReporterOps == {"get_redis_cache_metrics", "analyze_cache_patterns", "get_cache_health_check",
                "get_cache_performance_report", "clear_cache_and_get_metrics"}

\* A report depends on the cache alone, so a run is followed through one
\* report at a time: the next report is taken after another call.
ReportGuard == last.op \notin ReporterOps

\* The record of a call of the reporter: val holds the dict returned, inst
\* the answers of the backend.
Reported(op, r, inp, fail, ping_ms) ==
  /\ last' = Call(op, "", "", FALSE, Outcome(r.res, {r.doc}, FALSE, cache', r.trace),
                  {}, {[info |-> inp.info, script |-> inp.script, fail |-> fail,
                        ping_ms |-> ping_ms]}, FALSE, 0, FALSE)
  /\ UNCHANGED <<db, created, invalidated>>
  /\ EndCall

GetRedisCacheMetrics ==
  /\ ReportGuard
  /\ cache' = cache
  /\ \E inp \in MetricsInputs, fail \in SnapshotFailures :
       Reported("get_redis_cache_metrics",
                get_redis_cache_metrics(inp.info, inp.script, fail), inp, fail, 0)

AnalyzeCachePatterns ==
  /\ ReportGuard
  /\ cache' = cache
  /\ \E inp \in MetricsInputs, fail \in SnapshotFailures :
       Reported("analyze_cache_patterns",
                analyze_cache_patterns(inp.info, inp.script, fail), inp, fail, 0)

GetCacheHealthCheck ==
  /\ ReportGuard
  /\ cache' = cache
  /\ \E inp \in MetricsInputs, fail \in SnapshotFailures \cup {"ping"}, ping_ms \in PingValues :
       Reported("get_cache_health_check",
                get_cache_health_check(inp.info, inp.script, fail, ping_ms), inp, fail, ping_ms)

GetCachePerformanceReport ==
  /\ ReportGuard
  /\ cache' = cache
  /\ \E inp \in MetricsInputs, fail \in SnapshotFailures :
       Reported("get_cache_performance_report",
                get_cache_performance_report(inp.info, inp.script, fail), inp, fail, 0)

ClearCacheAndGetMetrics ==
  /\ ReportGuard
  /\ \E inp \in MetricsInputs, fail \in SnapshotFailures \cup {"delete"} :
       LET r == clear_cache_and_get_metrics(cache, inp.info, inp.script, fail)
       IN /\ cache' = r.cache
          /\ Reported("clear_cache_and_get_metrics", r, inp, fail, 0)

\* Calls of the reporter, the backend failing at any one kind of call, with
\* reads by type filling the cache in between.
NextMetrics ==
  \/ GetRedisCacheMetrics
  \/ AnalyzeCachePatterns
  \/ GetCacheHealthCheck
  \/ GetCachePerformanceReport
  \/ ClearCacheAndGetMetrics
  \/ \E t \in PROPERTY_TYPES : GetCachedPropertiesByType(t, FALSE, 0, FALSE)

SpecMetrics == Init /\ [][NextMetrics]_vars

(* ------------------------------------- the same calls, step by step      *)
Seq0 == UNCHANGED <<invalidated, last, faults, held>>

\* (a key that leaves the type out, for comparison)
ClientKey_without_type(c) ==
  IF c.op = "get_property_by_id" THEN property_key(c.id)
  ELSE properties_type_key(TYPE_NAMES[1])

ClientKey(c) ==
  IF c.op = "get_property_by_id" THEN property_key(c.id)
  ELSE properties_type_key(c.ptype)

\* get_all_properties: raises at utils.py:24, before any backend call
CGetAllProperties(p) ==
  /\ rd[p].pc = "idle"
  /\ rd' = [rd EXCEPT ![p] = [IdleClient EXCEPT !.pc = "done", !.op = "get_all_properties",
                                                !.res = "NameError"]]
  /\ UNCHANGED <<db, cache, created, wr>> /\ Seq0

\* get_property_by_id(property_id) is called
CBeginById(p, id) ==
  /\ rd[p].pc = "idle"
  /\ rd' = [rd EXCEPT ![p] = [IdleClient EXCEPT !.pc = "get", !.op = "get_property_by_id",
                                                !.id = id]]
  /\ UNCHANGED <<db, cache, created, wr>> /\ Seq0

\* get_cached_properties_by_type(property_type, force_refresh) is called
CBeginByType(p, t, force_refresh) ==
  /\ rd[p].pc = "idle"
  /\ rd' = [rd EXCEPT ![p] = [IdleClient EXCEPT
              !.pc = IF force_refresh THEN "delete" ELSE "get",
              !.op = "get_cached_properties_by_type", !.ptype = t, !.force = force_refresh]]
  /\ UNCHANGED <<db, cache, created, wr>> /\ Seq0

\* if force_refresh: cache.delete(cache_key)
CForceDelete(p) ==
  /\ rd[p].pc = "delete"
  /\ cache' = cache_delete(cache, ClientKey(rd[p]))
  /\ rd' = [rd EXCEPT ![p].pc = "get"]
  /\ UNCHANGED <<db, created, wr>> /\ Seq0

\* cache.get(cache_key), and the return on a hit
CGet(p) ==
  /\ rd[p].pc = "get"
  /\ LET cached == cache_get(cache, ClientKey(rd[p]))
     IN rd' = [rd EXCEPT ![p] = IF cached # {} /\ ~rd[p].force
                 THEN [rd[p] EXCEPT !.pc = "done", !.res = "ok", !.val = cached]
                 ELSE [rd[p] EXCEPT !.pc = "db"]]
  /\ UNCHANGED <<db, cache, created, wr>> /\ Seq0

\* the repository read of the miss path, and the return of None
CDb(p) ==
  /\ rd[p].pc = "db"
  /\ rd' = [rd EXCEPT ![p] =
       IF rd[p].op = "get_property_by_id"
         THEN IF objects_get(db, rd[p].id) = {}
                THEN [rd[p] EXCEPT !.pc = "done", !.res = "ok"]
                ELSE [rd[p] EXCEPT !.pc = "set", !.val = objects_get(db, rd[p].id)]
         ELSE [rd[p] EXCEPT !.pc = "set", !.val = {objects_filter_type(db, rd[p].ptype)}]]
  /\ UNCHANGED <<db, cache, created, wr>> /\ Seq0

\* cache.set(cache_key, value, timeout), and the return of the value
CSet(p) ==
  /\ rd[p].pc = "set"
  /\ cache' = cache_set(cache, ClientKey(rd[p]), CHOOSE v \in rd[p].val : TRUE,
                        IF rd[p].op = "get_property_by_id" THEN TTL_PROPERTY ELSE TTL_TYPE)
  /\ rd' = [rd EXCEPT ![p].pc = "done", ![p].res = "ok"]
  /\ UNCHANGED <<db, created, wr>> /\ Seq0

\* the caller has the result
CReturn(p) ==
  /\ rd[p].pc = "done"
  /\ rd' = [rd EXCEPT ![p] = IdleClient]
  /\ UNCHANGED <<db, cache, created, wr>> /\ Seq0

\* instance.save() is called on a new instance
WBeginCreate(id, t, a, ft, ti) ==
  /\ wr.pc = "idle"
  /\ id \notin DOMAIN db
  /\ created < MaxConcCreated
  /\ created' = created + 1
  /\ wr' = [wr EXCEPT !.pc = "pre_save", !.op = "create",
                      !.inst = {Property(id, t, a, ft, ti, created + 1)}]
  /\ UNCHANGED <<db, cache, rd>> /\ Seq0

\* instance.save() is called on a loaded instance with fields assigned
WBeginUpdate(id, t, a, ft, ti) ==
  /\ wr.pc = "idle"
  /\ id \in DOMAIN db
  /\ wr' = [wr EXCEPT !.pc = "pre_save", !.op = "update",
                      !.inst = {Property(id, t, a, ft, ti, db[id].created_at)}]
  /\ UNCHANGED <<db, cache, created, rd>> /\ Seq0

WInst == CHOOSE i \in wr.inst : TRUE

AffectedKeys(old, instance) ==
  {property_key(instance.id), properties_type_key(instance.property_type)}
  \cup {properties_type_key(o.property_type) : o \in old}

\* check_property_changes: old_instance = Property.objects.get(pk=instance.pk)
WPreSave ==
  /\ wr.pc = "pre_save"
  /\ wr' = [wr EXCEPT !.pc = "pre_delete", !.old = objects_get(db, WInst.id),
                      !.keys = check_property_changes_keys(objects_get(db, WInst.id), WInst)]
  /\ UNCHANGED <<db, cache, created, rd>> /\ Seq0

\* one cache.delete(key) of a receiver
WCacheDelete ==
  /\ wr.pc \in {"pre_delete", "post_save", "post_delete"}
  /\ wr.keys # <<>>
  /\ cache' = cache_delete(cache, Head(wr.keys))
  /\ wr' = [wr EXCEPT !.keys = Tail(wr.keys)]
  /\ UNCHANGED <<db, created, rd>> /\ Seq0

\* the row is written (autocommit); post_save receivers follow
CommitSave ==
  /\ wr.pc = "pre_delete"
  /\ wr.keys = <<>>
  /\ db' = db_put(db, WInst)
  /\ wr' = [wr EXCEPT !.pc = "post_save", !.keys = invalidate_cache_on_save_keys(WInst)]
  /\ UNCHANGED <<cache, created, rd>>

WCommitSave == CommitSave /\ Seq0

\* save() returns
WReturnSave ==
  /\ wr.pc = "post_save"
  /\ wr.keys = <<>>
  /\ wr' = IdleWriter(wr.affected \cup AffectedKeys(wr.old, WInst))
  /\ UNCHANGED <<db, cache, created, rd>> /\ Seq0

\* instance.delete() is called: the row is deleted inside a transaction and
\* the post_delete receivers run before it commits
WBeginDelete(id) ==
  /\ wr.pc = "idle"
  /\ id \in DOMAIN db
  /\ wr' = [wr EXCEPT !.pc = "post_delete", !.op = "delete", !.inst = {db[id]},
                      !.old = {db[id]}, !.keys = invalidate_cache_on_delete_keys(db[id])]
  /\ UNCHANGED <<db, cache, created, rd>> /\ Seq0

\* the transaction of delete() commits and delete() returns
CommitDelete ==
  /\ wr.pc = "post_delete"
  /\ wr.keys = <<>>
  /\ db' = db_remove(db, WInst.id)
  /\ wr' = IdleWriter(wr.affected \cup AffectedKeys(wr.old, WInst))
  /\ UNCHANGED <<cache, created, rd>>

WCommitDelete == CommitDelete /\ Seq0

NextConc ==
  \/ \E p \in Clients :
       \/ CGetAllProperties(p)
       \/ \E id \in Ids : CBeginById(p, id)
       \/ \E t \in PROPERTY_TYPES, b \in BOOLEAN : CBeginByType(p, t, b)
       \/ CForceDelete(p)
       \/ CGet(p)
       \/ CDb(p)
       \/ CSet(p)
       \/ CReturn(p)
  \/ \E id \in Ids, t \in PROPERTY_TYPES, a \in BOOLEAN, ft \in BOOLEAN, ti \in Titles :
       \/ WBeginCreate(id, t, a, ft, ti)
       \/ WBeginUpdate(id, t, a, ft, ti)
  \/ \E id \in Ids : WBeginDelete(id)
  \/ WPreSave
  \/ WCacheDelete
  \/ WCommitSave
  \/ WReturnSave
  \/ WCommitDelete

SpecConc == Init /\ [][NextConc]_vars

\* Reads that run as one step each, between the steps of a save().
NextAtomicFetch ==
  \/ \E id \in Ids : GetPropertyById(id, 0, FALSE)
  \/ \E t \in PROPERTY_TYPES, b \in BOOLEAN : GetCachedPropertiesByType(t, b, 0, FALSE)
  \/ \E id \in Ids, t \in PROPERTY_TYPES, a \in BOOLEAN, ft \in BOOLEAN, ti \in Titles :
       \/ WBeginCreate(id, t, a, ft, ti)
       \/ WBeginUpdate(id, t, a, ft, ti)
  \/ WPreSave
  \/ WCacheDelete
  \/ WCommitSave
  \/ WReturnSave

SpecAtomicFetch == Init /\ [][NextAtomicFetch]_vars

\* The same steps over two rows that are there from the start, the states the
\* repository goes through being recorded at each commit.  A run is followed
\* through MaxHeld states of the repository.
MaxHeld == 3

InitHeld ==
  /\ db = [id \in ListingIds |->
             Property(id, TYPE_NAMES[1], TRUE, FALSE, 1, IndexOfId(id))]
  /\ cache = Empty
  /\ created = MaxListingId
  /\ invalidated = {}
  /\ last = NoCall
  /\ faults = 0
  /\ rd = [p \in Clients |-> IdleClient]
  /\ wr = IdleWriter({})
  /\ held = {db}

Unrecorded == UNCHANGED <<invalidated, last, faults>>

HCommitSave == CommitSave /\ Unrecorded /\ held' = held \cup {db'}

HCommitDelete == CommitDelete /\ Unrecorded /\ held' = held \cup {db'}

NextHeld ==
  \/ \E p \in Clients :
       \/ \E id \in ListingIds : CBeginById(p, id)
       \/ \E t \in PROPERTY_TYPES, b \in BOOLEAN : CBeginByType(p, t, b)
       \/ CForceDelete(p)
       \/ CGet(p)
       \/ CDb(p)
       \/ CSet(p)
       \/ CReturn(p)
  \/ \E id \in ListingIds, t \in PROPERTY_TYPES, ti \in Titles :
       Cardinality(held) < MaxHeld /\ WBeginUpdate(id, t, TRUE, FALSE, ti)
  \/ \E id \in ListingIds : Cardinality(held) < MaxHeld /\ WBeginDelete(id)
  \/ WPreSave
  \/ WCacheDelete
  \/ HCommitSave
  \/ WReturnSave
  \/ HCommitDelete

SpecHeld == InitHeld /\ [][NextHeld]_vars

(* ============================================================ claims     *)
IsRead(op) == op \in {"get_all_properties", "get_property_by_id", "get_cached_properties_by_type"}
IsSave(op) == op \in {"create", "update"}
IsWrite(op) == op \in {"create", "update", "delete"}

LastOld == CHOOSE o \in last.old : TRUE
LastInst == CHOOSE i \in last.inst : TRUE
Absent(k) == k \notin DOMAIN cache

\* C1: in a sequential history of create, update, delete and
\* get_property_by_id calls with healthy backends, every get_property_by_id
\* returns the row the repository holds for the id at that moment, or None
\* when it holds none.
C1_FetchByIdCurrent ==
  last.op = "get_property_by_id" =>
    /\ last.res = "ok"
    /\ last.val = objects_get(db, last.id)

\* A cache hit that returned a row: the case where a stale entry would show.
C1_Witness ==
  /\ last.op = "get_property_by_id"
  /\ last.hit
  /\ last.id \in DOMAIN db
  /\ last.val = {db[last.id]}

\* C2: the first get_property_by_id(id) after invalidate_property_cache(id)
\* has returned is a cache miss and returns what the repository holds at the
\* time of the read, whatever was written to the repository in between.
C2_MissAfterInvalidate ==
  (last.op = "get_property_by_id" /\ last.after_inv) =>
    /\ ~last.hit
    /\ last.res = "ok"
    /\ last.val = objects_get(db, last.id)
    /\ DbCalls(last.trace) = 1

C2_Witness ==
  /\ last.op = "get_property_by_id"
  /\ last.after_inv
  /\ last.val # {}

Current(k) ==
  IF k.kind = "property_" THEN objects_get(db, k.arg) = {cache[k].val}
  ELSE cache[k].val = objects_filter_type(db, k.arg)

\* C3: under any interleaving of the steps of concurrent reads with the steps
\* of mutations, once the invalidation of a mutation has completed (and no
\* mutation is in progress) every cache entry of the entries the mutations
\* changed equals the repository's current state.
C3_NoStaleAfterInvalidation ==
  wr.pc = "idle" => \A k \in wr.affected \cap DOMAIN cache : Current(k)

\* C4: when an update changes property_type from D1 to D2 (D1 # D2), both
\* properties_type_D1 and properties_type_D2 are absent from the cache when
\* save() returns.
C4_BothTypeKeysAbsent ==
  (last.op = "update" /\ LastOld.property_type # last.ptype) =>
    /\ Absent(properties_type_key(LastOld.property_type))
    /\ Absent(properties_type_key(last.ptype))

C4_Witness ==
  /\ last.op = "update"
  /\ LastOld.property_type # last.ptype
  /\ last.res = "ok"
  /\ properties_type_key(LastOld.property_type) \in last.val
  /\ properties_type_key(last.ptype) \in last.val

\* C5: after a create or update of entry id returns, all_properties,
\* all_properties_timestamp, properties_type_{new type} and property_{id} are
\* absent; properties_type_{old type} too when the type changed; and
\* featured_properties too when the featured flag changed or the saved entry
\* is featured.
C5_SaveKeySetAbsent ==
  IsSave(last.op) =>
    /\ Absent(all_properties)
    /\ Absent(all_properties_timestamp)
    /\ Absent(properties_type_key(last.ptype))
    /\ Absent(property_key(last.id))
    /\ (last.old # {} /\ LastOld.property_type # last.ptype)
         => Absent(properties_type_key(LastOld.property_type))
    /\ (LastInst.featured \/ (last.old # {} /\ LastOld.featured # LastInst.featured))
         => Absent(featured_properties)

\* An update that takes the featured flag away: featured_properties is
\* deleted by the pre_save receiver alone.
C5_Witness ==
  /\ last.op = "update"
  /\ LastOld.featured
  /\ ~LastInst.featured
  /\ last.res = "ok"
  /\ {featured_properties, all_properties, all_properties_timestamp, property_key(last.id)} \subseteq last.val

\* C6: after a delete of entry id with type D returns, all_properties,
\* all_properties_timestamp, properties_type_D and property_{id} are absent,
\* and featured_properties too when the deleted entry was featured.
C6_DeleteKeySetAbsent ==
  last.op = "delete" =>
    /\ Absent(all_properties)
    /\ Absent(all_properties_timestamp)
    /\ Absent(properties_type_key(last.ptype))
    /\ Absent(property_key(last.id))
    /\ LastInst.featured => Absent(featured_properties)

C6_Witness ==
  /\ last.op = "delete"
  /\ LastInst.featured
  /\ last.res = "ok"
  /\ last.id \notin DOMAIN db
  /\ {featured_properties, all_properties, all_properties_timestamp,
      properties_type_key(last.ptype), property_key(last.id)} \subseteq last.val

IndexOfCommit(tr) ==
  IF \E i \in 1..Len(tr) : tr[i].call = "db.commit"
    THEN CHOOSE i \in 1..Len(tr) : tr[i].call = "db.commit"
    ELSE Len(tr) + 1

\* C7: for every create, update and delete, every cache deletion of the
\* receivers is issued after the repository commit of that mutation.
C7_DeletesAfterCommit ==
  IsWrite(last.op) =>
    \A i \in 1..Len(last.trace) :
      last.trace[i].call = "cache.delete" => i > IndexOfCommit(last.trace)

\* C8: when a cache deletion issued during a create, update or delete fails,
\* the call still returns normally and the repository holds the
\* post-mutation state.
C8_DeleteFailureNotEscalated ==
  (IsWrite(last.op) /\ last.f # 0) =>
    /\ last.res = "ok"
    /\ IsSave(last.op) => (last.id \in DOMAIN db /\ Brief(db[last.id]) = LastInst)
    /\ last.op = "delete" => last.id \notin DOMAIN db

ExpectedRead ==
  IF last.op = "get_property_by_id" THEN objects_get(db, last.id)
  ELSE IF last.op = "get_cached_properties_by_type" THEN {objects_filter_type(db, last.ptype)}
  ELSE {objects_all(db)}

\* C9: when every cache call errors, get_all_properties, get_property_by_id
\* and get_cached_properties_by_type return, without raising, the data the
\* repository holds.
C9_ReadsFailOpen ==
  (IsRead(last.op) /\ (last.f = 1 \/ last.op = "get_all_properties")) =>
    /\ last.res = "ok"
    /\ last.val = ExpectedRead

RequestedKey ==
  IF last'.op = "get_property_by_id" THEN property_key(last'.id)
  ELSE IF last'.op = "get_cached_properties_by_type" THEN properties_type_key(last'.ptype)
  ELSE all_properties

\* C10: when the repository call on the miss path of a read fails, the
\* error reaches the caller and the cache stays as it was when the miss path
\* began (after the delete of a forced refresh): nothing is written under the
\* requested key.  (get_all_properties raises before its miss path, so it
\* never issues the repository call.)
C10_RepositoryErrorPropagates ==
  [][(IsRead(last'.op) /\ last'.dbf) =>
       /\ last'.res = "DatabaseError"
       /\ RequestedKey \notin DOMAIN cache'
       /\ cache' = IF last'.force THEN cache_delete(cache, RequestedKey) ELSE cache]_vars

C10_Witness ==
  /\ last.op = "get_cached_properties_by_type"
  /\ last.dbf
  /\ last.res = "DatabaseError"
  /\ last.trace[Len(last.trace)].call = "db.filter"

\* C11: get_property_by_id(id) is read-through.  When property_{id} is in
\* the cache the call returns the cached value, issues no repository call and
\* leaves the cache as it was; when property_{id} is absent and the
\* repository holds the row, the call returns that row and afterwards
\* property_{id} holds it with a time-to-live of 7200 seconds.
C11_ReadThrough ==
  [][last'.op = "get_property_by_id" =>
       LET k == property_key(last'.id)
       IN /\ k \in DOMAIN cache =>
               /\ last'.res = "ok"
               /\ last'.val = {cache[k].val}
               /\ DbCalls(last'.trace) = 0
               /\ cache' = cache
          /\ (k \notin DOMAIN cache /\ last'.id \in DOMAIN db) =>
               /\ last'.res = "ok"
               /\ last'.val = {db[last'.id]}
               /\ k \in DOMAIN cache'
               /\ cache'[k].val = db[last'.id]
               /\ cache'[k].ttl = 7200
               /\ \A x \in (DOMAIN cache') \ {k} : x \in DOMAIN cache /\ cache'[x] = cache[x]]_vars

\* A miss that read the row from the repository and cached it.
C11_Witness ==
  /\ last.op = "get_property_by_id"
  /\ ~last.hit
  /\ last.val # {}
  /\ DbCalls(last.trace) = 1
  /\ property_key(last.id) \in DOMAIN cache
  /\ cache[property_key(last.id)].ttl = 7200

\* C12: negative lookups are never cached.  get_property_by_id(id) for an id
\* that is in neither cache nor repository returns None as a value (no
\* exception) and leaves the whole cache unchanged; hence a
\* get_property_by_id(id) issued right after a create of id returns the new
\* row.
C12_NegativeNotCached ==
  [][last'.op = "get_property_by_id" =>
       /\ (property_key(last'.id) \notin DOMAIN cache /\ last'.id \notin DOMAIN db) =>
            /\ last'.res = "ok"
            /\ last'.val = {}
            /\ cache' = cache
       /\ (last.op = "create" /\ last.res = "ok" /\ last.id = last'.id) =>
            /\ last'.res = "ok"
            /\ last'.val = {db[last'.id]}]_vars

\* A lookup that returned None while other keys were cached.
C12_Witness ==
  /\ last.op = "get_property_by_id"
  /\ last.res = "ok"
  /\ last.val = {}
  /\ ~last.hit
  /\ last.id \notin DOMAIN db
  /\ cache # Empty
  /\ property_key(last.id) \notin DOMAIN cache

\* C13: get_all_properties() without a forced refresh returns a sequence and
\* never an error when cache and repository are healthy: the cached sequence
\* on a hit, the repository's rows by creation time descending on a miss,
\* after which all_properties holds the returned sequence and
\* all_properties_timestamp is set, both with a time-to-live of 3600 seconds.
C13_FetchAllReturnsListing ==
  (last.op = "get_all_properties" /\ ~last.force) =>
    /\ last.res = "ok"
    /\ all_properties \in DOMAIN cache
    /\ last.val = {cache[all_properties].val}
    /\ ~last.hit =>
         /\ last.val = {objects_all(db)}
         /\ cache[all_properties].ttl = 3600
         /\ all_properties_timestamp \in DOMAIN cache
         /\ cache[all_properties_timestamp].ttl = 3600

\* The listing key of a read of a listing.
ListingKey == IF last.op = "get_all_properties" THEN all_properties
              ELSE properties_type_key(last.ptype)

\* The rows of the repository, newest first, that a listing key stands for.
CurrentListing ==
  IF last.op = "get_all_properties" THEN order_by_created_desc(Rows(db))
  ELSE order_by_created_desc({r \in Rows(db) : r.property_type = last.ptype /\ r.is_available})

\* C14: get_all_properties(force_refresh=True) and
\* get_cached_properties_by_type(v, force_refresh=True) never serve the value
\* cached before the call: the result is the repository's current listing and
\* after the call the listing key holds that listing.
C14_ForceRefreshServesCurrent ==
  (last.op \in {"get_all_properties", "get_cached_properties_by_type"} /\ last.force) =>
    /\ last.res = "ok"
    /\ ~last.hit
    /\ last.val = {CurrentListing}
    /\ ListingKey \in DOMAIN cache
    /\ cache[ListingKey].val = CurrentListing

\* The half of C14 that is about get_cached_properties_by_type alone.
ForceRefreshByTypeServesCurrent ==
  last.op = "get_cached_properties_by_type" => C14_ForceRefreshServesCurrent

\* C15: get_cached_properties_by_type(v) without a forced refresh: on a hit
\* for properties_type_{v} it returns the cached sequence and issues no
\* repository call; on a miss it returns exactly the rows with property_type
\* v and is_available true, newest first, and afterwards properties_type_{v}
\* holds that sequence with a time-to-live of 1800 seconds.
C15_ByTypeReadThrough ==
  [][(last'.op = "get_cached_properties_by_type" /\ ~last'.force) =>
       LET k == properties_type_key(last'.ptype)
           listing == order_by_created_desc(
                        {r \in Rows(db) : r.property_type = last'.ptype /\ r.is_available})
       IN /\ last'.res = "ok"
          /\ k \in DOMAIN cache =>
               /\ last'.val = {cache[k].val}
               /\ DbCalls(last'.trace) = 0
               /\ cache' = cache
          /\ k \notin DOMAIN cache =>
               /\ last'.val = {listing}
               /\ k \in DOMAIN cache'
               /\ cache'[k].val = listing
               /\ cache'[k].ttl = 1800
               /\ \A x \in (DOMAIN cache') \ {k} : x \in DOMAIN cache /\ cache'[x] = cache[x]]_vars

\* A miss that returned and cached a listing of two rows, the newer first.
C15_Witness ==
  /\ last.op = "get_cached_properties_by_type"
  /\ ~last.force
  /\ ~last.hit
  /\ last.res = "ok"
  /\ \E l \in last.val : Len(l) = 2 /\ l[1].created_at > l[2].created_at
  /\ cache[properties_type_key(last.ptype)].ttl = 1800

\* C16: in a sequential history of create, update and delete interleaved
\* with get_cached_properties_by_type, with healthy backends and no expiry,
\* whenever properties_type_{v} is in the cache between calls it holds the
\* repository's current rows with property_type v and is_available true,
\* newest first; so every get_cached_properties_by_type(v) returns the
\* current listing.
C16_TypeListingCurrent ==
  /\ \A v \in PROPERTY_TYPES :
       properties_type_key(v) \in DOMAIN cache =>
         cache[properties_type_key(v)].val =
           order_by_created_desc({r \in Rows(db) : r.property_type = v /\ r.is_available})
  /\ (last.op = "get_cached_properties_by_type" /\ last.res = "ok") =>
       last.val = {order_by_created_desc(
                     {r \in Rows(db) : r.property_type = last.ptype /\ r.is_available})}

\* An update of one row has returned while the listing of the other type,
\* cached before it, is still in the cache and holds a row.
C16_Witness ==
  /\ last.op = "update"
  /\ last.res = "ok"
  /\ \E v \in PROPERTY_TYPES :
       /\ properties_type_key(v) \in DOMAIN cache
       /\ cache[properties_type_key(v)].val # <<>>

\* C17: invalidate_property_cache(id) deletes exactly property_{id} and
\* all_properties; invalidate_property_cache() deletes exactly
\* all_properties, all_properties_timestamp and properties_type_{v} for each
\* known type v; every other key keeps its value.  The count returned is the
\* number of keys of that set that were in the cache just before the call.
C17_InvalidateExactKeys ==
  [][last'.op = "invalidate_property_cache" =>
       LET ks == IF last'.id # ""
                   THEN {property_key(last'.id), all_properties}
                   ELSE {all_properties, all_properties_timestamp}
                        \cup {properties_type_key(v) : v \in PROPERTY_TYPES}
       IN /\ last'.res = "ok"
          /\ DOMAIN cache' = (DOMAIN cache) \ ks
          /\ \A x \in DOMAIN cache' : cache'[x] = cache[x]
          /\ last'.val = {Cardinality(ks \cap DOMAIN cache)}]_vars

\* invalidate_property_cache() found three of its keys in the cache and left
\* the featured listing and a per-entry key where they were.
C17_Witness ==
  /\ last.op = "invalidate_property_cache"
  /\ last.id = ""
  /\ last.val = {3}
  /\ featured_properties \in DOMAIN cache
  /\ \E id \in Ids : property_key(id) \in DOMAIN cache

\* C18: invalidate_property_cache is idempotent.  A call that follows at
\* once a call with the same argument does not raise, returns zero (the cache
\* is healthy) and leaves the cache as the first call left it.
C18_InvalidateIdempotent ==
  [][(last'.op = "invalidate_property_cache" /\ last'.again) =>
       /\ last'.res = "ok"
       /\ last'.val = {0}
       /\ cache' = cache]_vars

\* The second of two calls in a row for an id, the first of which had
\* deleted keys, with other keys still cached.
C18_Witness ==
  /\ last.op = "invalidate_property_cache"
  /\ last.again
  /\ last.id # ""
  /\ last.val = {0}
  /\ cache # Empty

C20_TtlOrderedByFanOut ==
  \A v \in PROPERTY_TYPES, id \in Ids :
    (properties_type_key(v) \in DOMAIN cache /\ property_key(id) \in DOMAIN cache) =>
      /\ TTL_ALL <= cache[properties_type_key(v)].ttl
      /\ cache[properties_type_key(v)].ttl <= cache[property_key(id)].ttl

\* C20 amended: the single entry's time-to-live is the largest, and the
\* smallest is that of the listings by type, not that of the full listing:
\* TTL(properties_type_{v}) <= TTL(all_properties) <= TTL(property_{id}).
C20_TtlTiers ==
  \A v \in PROPERTY_TYPES, id \in Ids :
    (properties_type_key(v) \in DOMAIN cache /\ property_key(id) \in DOMAIN cache) =>
      /\ cache[properties_type_key(v)].ttl <= TTL_ALL
      /\ TTL_ALL <= cache[property_key(id)].ttl

\* A listing by type and a single entry, each stored by its read, are in the
\* cache together.
C20_Witness ==
  /\ last.op \in {"get_cached_properties_by_type", "get_property_by_id"}
  /\ ~last.hit
  /\ \E v \in PROPERTY_TYPES, id \in Ids :
       /\ properties_type_key(v) \in DOMAIN cache
       /\ property_key(id) \in DOMAIN cache

\* C21: invalidate_all_property_caches enumerates the keys to delete with
\* cursor-based scan calls in bounded batches; it issues no single backend
\* call that walks the whole keyspace.
C21_BulkUsesCursorScan ==
  last.op = "invalidate_all_property_caches" =>
    \A i \in 1..Len(last.trace) : last.trace[i].call \in {"redis.scan", "redis.delete"}

\* C22: after invalidate_all_property_caches has completed with a reachable
\* cache, no property-related key is left: property_{id}, all_properties,
\* all_properties_timestamp, properties_type_{v} and featured_properties are
\* all absent.
C22_BulkLeavesNoPropertyKey ==
  (last.op = "invalidate_all_property_caches" /\ last.f = 0) =>
    \A k \in DOMAIN cache :
      k.kind \notin {"property_", "all_properties", "all_properties_timestamp",
                     "properties_type_", "featured_properties"}

\* What invalidate_all_property_caches does delete: the per-entry keys.
BulkDeletesEntryKeys ==
  (last.op = "invalidate_all_property_caches" /\ last.f = 0) =>
    \A k \in DOMAIN cache : k.kind # "property_"

\* C23: a create, update or delete of entry id deletes cache keys only
\* from its exact key set (all_properties, all_properties_timestamp,
\* properties_type_{old and new type}, property_{id}, featured_properties),
\* each by a single-key delete and none by a pattern scan; property_{j} of
\* every other id j and properties_type_{w} of every other type w keep their
\* values.
C23_PreciseInvalidation ==
  [][IsWrite(last'.op) =>
       LET types == {i.property_type : i \in last'.inst} \cup {o.property_type : o \in last'.old}
           ks == {all_properties, all_properties_timestamp, featured_properties,
                  property_key(last'.id)}
                 \cup {properties_type_key(t) : t \in types}
       IN /\ ((DOMAIN cache) \ (DOMAIN cache')) \subseteq ks
          /\ \A k \in DOMAIN cache' : k \in DOMAIN cache /\ cache'[k] = cache[k]
          /\ \A k \in (DOMAIN cache) \ ks : k \in DOMAIN cache'
          /\ \A i \in 1..Len(last'.trace) :
               \/ last'.trace[i].key.kind = "db"
               \/ /\ last'.trace[i].call = "cache.delete"
                  /\ last'.trace[i].key \in ks]_vars

\* An update that changed the type of a row has deleted keys while the key
\* of the other row and the listing of a third type stayed in the cache.
C23_Witness ==
  /\ last.op = "update"
  /\ last.res = "ok"
  /\ LastOld.property_type # last.ptype
  /\ last.val # {}
  /\ \E j \in ListingIds : j # last.id /\ property_key(j) \in DOMAIN cache
  /\ \E w \in PreciseTypes :
       /\ w \notin {LastOld.property_type, last.ptype}
       /\ properties_type_key(w) \in DOMAIN cache


(* ------------------------------------------------ the reporter's claims *)
\* The dict the last call of the reporter returned, and the answers the
\* backend gave to it.
LastDoc == CHOOSE d \in last.val : TRUE
LastInput == CHOOSE i \in last.inst : TRUE

SnapshotSucceeded ==
  /\ last.op \in {"get_redis_cache_metrics", "analyze_cache_patterns"}
  /\ last.res = "ok"
  /\ LastDoc.status = "success"

\* The hit ratio a snapshot or an analysis reports, in hundredths of a percent.
ReportedHitRatio ==
  IF last.op = "analyze_cache_patterns" THEN LastDoc.hit_ratio ELSE LastDoc.hit_ratio_percent

ReportedMemoryUsage == LastDoc.memory_usage_percent

Distance(a, b) == IF a >= b THEN a - b ELSE b - a

\* C24, as stated: the reported hit ratio is 0 when there were no operations
\* and otherwise exactly hits * 100 / (hits + misses), within [0, 100]; the
\* analysis says POOR below 50, FAIR from 50 to below 80, EXCELLENT from 80.
C24_HitRatioExact ==
  SnapshotSucceeded =>
    LET hits == LastInput.info.keyspace_hits
        total == hits + LastInput.info.keyspace_misses
    IN /\ total = 0 => ReportedHitRatio = 0
       /\ total > 0 => ReportedHitRatio * total = hits * 100 * 100
       /\ ReportedHitRatio \in 0..(100 * 100)
       /\ last.op = "analyze_cache_patterns" =>
            LastDoc.hit_ratio_status =
              (IF ReportedHitRatio < 50 * 100 THEN "POOR"
               ELSE IF ReportedHitRatio < 80 * 100 THEN "FAIR" ELSE "EXCELLENT")

\* C24, amended: the reported hit ratio is 0 when there were no operations and
\* otherwise hits * 100 / (hits + misses) rounded to the nearest hundredth,
\* within [0, 100]; the analysis classifies the reported value: POOR below 50,
\* FAIR from 50 to below 80, EXCELLENT from 80; 80 hits and 20 misses give 80
\* and EXCELLENT.
C24_HitRatioRounded ==
  SnapshotSucceeded =>
    LET hits == LastInput.info.keyspace_hits
        total == hits + LastInput.info.keyspace_misses
    IN /\ total = 0 => ReportedHitRatio = 0
       /\ total > 0 => 2 * Distance(ReportedHitRatio * total, hits * 100 * 100) <= total
       /\ ReportedHitRatio \in 0..(100 * 100)
       /\ last.op = "analyze_cache_patterns" =>
            LastDoc.hit_ratio_status =
              (IF ReportedHitRatio < 50 * 100 THEN "POOR"
               ELSE IF ReportedHitRatio < 80 * 100 THEN "FAIR" ELSE "EXCELLENT")
       /\ (hits = 80 /\ total = 100) =>
            /\ ReportedHitRatio = 80 * 100
            /\ last.op = "analyze_cache_patterns" => LastDoc.hit_ratio_status = "EXCELLENT"

\* An analysis of 2 hits and 1 miss: 66.67, FAIR.
C24_Witness ==
  /\ SnapshotSucceeded
  /\ last.op = "analyze_cache_patterns"
  /\ LastInput.info.keyspace_hits = 2
  /\ LastInput.info.keyspace_misses = 1
  /\ LastDoc.hit_ratio = 6667
  /\ LastDoc.hit_ratio_status = "FAIR"

\* C25: the memory usage is 0 when no maximum is configured and otherwise
\* used * 100 / max; the analysis says HEALTHY below 70, HIGH from 70 to below
\* 90 and CRITICAL from 90, the values 70 and 90 included.
C25_MemoryClassification ==
  SnapshotSucceeded =>
    LET used == LastInput.info.used_memory
        max == LastInput.info.maxmemory
    IN /\ max = 0 => ReportedMemoryUsage = 0
       /\ max > 0 => 2 * Distance(ReportedMemoryUsage * max, used * 100 * 100) <= max
       /\ last.op = "analyze_cache_patterns" =>
            LastDoc.memory_status =
              (IF ReportedMemoryUsage < 70 * 100 THEN "HEALTHY"
               ELSE IF ReportedMemoryUsage < 90 * 100 THEN "HIGH" ELSE "CRITICAL")

\* What the code does hold to: CRITICAL above 90, HIGH above 70, else HEALTHY.
MemoryClassifiedAboveThresholds ==
  (SnapshotSucceeded /\ last.op = "analyze_cache_patterns") =>
    LastDoc.memory_status =
      (IF ReportedMemoryUsage > 90 * 100 THEN "CRITICAL"
       ELSE IF ReportedMemoryUsage > 70 * 100 THEN "HIGH" ELSE "HEALTHY")

HealthChecked == last.op = "get_cache_health_check" /\ last.res = "ok"

ProbeFailed == LastInput.fail \in {"connection", "ping"}

\* CRITICAL > WARNING > HEALTHY
Severity(status) ==
  IF status = "CRITICAL" THEN 2 ELSE IF status = "WARNING" THEN 1 ELSE 0

WorstOf(components) ==
  IF \E c \in DOMAIN components : components[c] = "CRITICAL" THEN "CRITICAL"
  ELSE IF \E c \in DOMAIN components : components[c] = "WARNING" THEN "WARNING"
  ELSE "HEALTHY"

\* C26, as stated: the overall status of a health check is UNREACHABLE when
\* the probe fails and otherwise the worst of the component statuses,
\* CRITICAL > WARNING > HEALTHY.
C26_WorstOfComponents ==
  HealthChecked =>
    IF ProbeFailed THEN LastDoc.overall_status = "UNREACHABLE"
    ELSE LastDoc.overall_status = WorstOf(LastDoc.components)

\* C26, amended: the overall status is UNREACHABLE when the probe fails; when
\* the probe succeeds and the snapshot is taken it is the worst of the statuses
\* of the three components, never better than any of them; when the probe
\* succeeds and the snapshot fails it is ERROR, with no component reported.
C26_OverallStatus ==
  HealthChecked =>
    IF ProbeFailed THEN LastDoc.overall_status = "UNREACHABLE"
    ELSE IF LastInput.fail = "info"
      THEN LastDoc.overall_status = "ERROR" /\ DOMAIN LastDoc.components = {}
    ELSE /\ DOMAIN LastDoc.components = {"hit_ratio", "memory_usage", "connections"}
         /\ LastDoc.overall_status = WorstOf(LastDoc.components)
         /\ \A c \in DOMAIN LastDoc.components :
              Severity(LastDoc.overall_status) >= Severity(LastDoc.components[c])

\* A health check whose worst component is a WARNING.
C26_Witness ==
  /\ HealthChecked
  /\ LastInput.fail = "none"
  /\ LastDoc.overall_status = "WARNING"
  /\ \E c \in DOMAIN LastDoc.components : LastDoc.components[c] = "WARNING"
  /\ \E c \in DOMAIN LastDoc.components : LastDoc.components[c] = "HEALTHY"

\* The scan of a snapshot comes to an end: the backend answers cursor 0.
ScanEnds(script) == \E i \in 1..Len(script) : script[i].cursor = 0

\* C27: whatever call of the backend fails, a function of the reporter
\* returns a dict with a status of success or error; no exception leaves it.
C27_NoBackendErrorEscapes ==
  last.op \in ReporterOps =>
    /\ last.res # "raised"
    /\ last.res = "ok" => LastDoc.status \in {"success", "error"}
    /\ (ScanEnds(LastInput.script) \/ LastInput.fail \notin {"none", "ttl"}) => last.res = "ok"

\* The deletes of clear_cache_and_get_metrics fail and it returns an error.
C27_Witness ==
  /\ last.op = "clear_cache_and_get_metrics"
  /\ LastInput.fail = "delete"
  /\ last.res = "ok"
  /\ LastDoc.status = "error"

\* The first answer of the script with cursor 0.
FirstEnd(script) ==
  CHOOSE i \in 1..Len(script) :
    script[i].cursor = 0 /\ \A j \in 1..(i - 1) : script[j].cursor # 0

RECURSIVE Concatenated(_, _)
Concatenated(script, n) ==
  IF n = 0 THEN <<>> ELSE Concatenated(script, n - 1) \o script[n].keys

ScanEvents(trace) == Cardinality({i \in DOMAIN trace : trace[i].call = "scan"})

\* C30: the key scan of a snapshot makes at least one scan call, the first
\* at cursor 0 and each next one at the cursor the backend returned; it ends
\* at the first answer with cursor 0 and no sooner, and the keys collected are
\* the batches returned, in order.
C30_ScanLoop ==
  (last.op = "get_redis_cache_metrics" /\ LastInput.fail \in {"none", "ttl"}) =>
    LET script == LastInput.script
    IN IF ScanEnds(script)
         THEN /\ last.res = "ok"
              /\ LET calls == LastDoc.scan_calls
                 IN /\ Len(calls) >= 1
                    /\ calls[1] = 0
                    /\ \A i \in 1..(Len(calls) - 1) : calls[i + 1] = script[i].cursor
                    /\ Len(calls) = FirstEnd(script)
                    /\ ScanEvents(last.trace) = Len(calls)
                    /\ LastDoc.all_keys = Concatenated(script, FirstEnd(script))
                    /\ LastDoc.cache_stats.total_keys_scanned = Len(LastDoc.all_keys)
       ELSE /\ last.res = "loops"
            /\ ScanEvents(last.trace) = Len(script)

\* A scan of two calls: the first answer has cursor 2 and a key, the second
\* cursor 0 and a key.
C30_Witness ==
  /\ last.op = "get_redis_cache_metrics"
  /\ LastInput.fail = "none"
  /\ last.res = "ok"
  /\ LastDoc.scan_calls = <<0, 2>>
  /\ Len(LastDoc.all_keys) = 2


(* ------------------------------------------------ the budget of a read  *)
\* The backend calls of the last call, by kind.
CallKinds == [i \in 1..Len(last.trace) |->
                IF last.trace[i].key.kind = "db" THEN "db" ELSE last.trace[i].call]

\* The key the last read was asked for.
LastRequestedKey ==
  IF last.op = "get_property_by_id" THEN property_key(last.id)
  ELSE IF last.op = "get_cached_properties_by_type" THEN properties_type_key(last.ptype)
  ELSE all_properties

IsPrefix(s, t) == Len(s) <= Len(t) /\ s = SubSeq(t, 1, Len(s))

\* C28, as stated: a read issues at most one repository call and at most two
\* cache calls, a read followed by a conditional write.
C28_TwoCacheCalls ==
  IsRead(last.op) =>
    /\ DbCalls(last.trace) <= 1
    /\ CacheCalls(last.trace) <= 2
    /\ IsPrefix(CallKinds, <<"cache.get", "db", "cache.set">>)

\* C28, amended: a read issues at most one repository call and at most three
\* cache calls, in this order: a delete when forceRefresh is set, a read of
\* the key, the repository call on a miss or a forced refresh, a write of the
\* key; without forceRefresh there are at most two cache calls and a hit is
\* the read alone.
C28_ReadCallBudget ==
  IsRead(last.op) =>
    /\ DbCalls(last.trace) <= 1
    /\ CacheCalls(last.trace) <= (IF last.force THEN 3 ELSE 2)
    /\ IsPrefix(CallKinds,
                IF last.force THEN <<"cache.delete", "cache.get", "db", "cache.set">>
                ELSE <<"cache.get", "db", "cache.set">>)
    /\ last.hit => CallKinds = <<"cache.get">>
    /\ \A i \in 1..Len(last.trace) :
         last.trace[i].key.kind # "db" => last.trace[i].key = LastRequestedKey

\* A forced refresh by type: delete, read, query, write.
C28_Witness ==
  /\ last.op = "get_cached_properties_by_type"
  /\ last.force
  /\ last.res = "ok"
  /\ CallKinds = <<"cache.delete", "cache.get", "db", "cache.set">>


(* ------------------------------------------------ the backstop of time  *)
\* From some time on the repository is left as it is.
MutationsStop == <>[][FALSE]_db

\* The last call, when it is one of ops, returned what the repository holds.
ServesCurrent(ops) ==
  IF last.op \in ops THEN last.res = "ok" /\ last.val = ExpectedRead ELSE TRUE

ReadOps == {"get_all_properties", "get_property_by_id", "get_cached_properties_by_type"}

\* C29: when mutations stop and the clock keeps advancing (the fairness of
\* SpecBackstopFair), from some time on every get_all_properties,
\* get_property_by_id and get_cached_properties_by_type returns what the
\* repository holds, whatever stale entry a racing read or a lost invalidation
\* left in the cache.
C29_TtlBackstop == MutationsStop => <>[]ServesCurrent(ReadOps)

\* What the code does hold to: the same for get_property_by_id and
\* get_cached_properties_by_type.
KeyedReadsEventuallyCurrent ==
  MutationsStop => <>[]ServesCurrent(ReadOps \ {"get_all_properties"})

\* A stale entry is there to be outlived: a read served a row the repository
\* no longer holds.
StaleReadServed ==
  /\ last.op = "get_property_by_id"
  /\ last.hit
  /\ ~ServesCurrent(ReadOps)


ListingHasTimestamp ==
  (all_properties \in DOMAIN cache) => (all_properties_timestamp \in DOMAIN cache)


(* ------------------------------------------------ a save() and atomic reads *)
\* The step is the return of an update that moved its row from one type to
\* another.
MoveReturns ==
  /\ wr.pc = "post_save"
  /\ wr.keys = <<>>
  /\ wr'.pc = "idle"
  /\ wr.op = "update"
  /\ \E o \in wr.old : o.property_type # WInst.property_type

OldTypeKey == properties_type_key((CHOOSE o \in wr.old : TRUE).property_type)

Lists(listing, id) == \E i \in 1..Len(listing) : listing[i].id = id

\* C32: reads being atomic, when an update that moved a row from type D1 to
\* type D2 returns, properties_type_D1 is absent from the cache or does not
\* list the row.
C32_MovedEntryNotUnderOldType ==
  [][MoveReturns =>
       (OldTypeKey \notin DOMAIN cache' \/ ~Lists(cache'[OldTypeKey].val, WInst.id))]_vars

\* What the code does hold to: at that return properties_type_D2 is absent or
\* is what the repository lists under D2.
MovedEntryUnderNewType ==
  [][MoveReturns =>
       LET k == properties_type_key(WInst.property_type)
       IN k \in DOMAIN cache' =>
            cache'[k].val = objects_filter_type(db', WInst.property_type)]_vars


(* ------------------------------------------------ what the cache may hold *)
\* C33: whatever the interleaving of reads, mutations and invalidations,
\* a value under property_{id} is a row the repository held for id at some
\* moment up to now, and a sequence under properties_type_{t} or
\* all_properties is what the query gave in one state the repository held up
\* to now: never a mix of two states.
C33_NoFabricatedValues ==
  \A k \in DOMAIN cache :
    /\ k.kind = "property_" =>
         \E d \in held : k.arg \in DOMAIN d /\ d[k.arg] = cache[k].val
    /\ k.kind = "properties_type_" =>
         \E d \in held : cache[k].val = objects_filter_type(d, k.arg)
    /\ k = all_properties => \E d \in held : cache[k].val = objects_all(d)

\* A listing of two rows is cached that the repository no longer gives, and
\* a row that the repository no longer holds.
C33_Witness ==
  /\ Cardinality(held) > 1
  /\ \E k \in DOMAIN cache :
       /\ k.kind = "properties_type_"
       /\ Len(cache[k].val) = 2
       /\ cache[k].val # objects_filter_type(db, k.arg)
  /\ \E k \in DOMAIN cache :
       /\ k.kind = "property_"
       /\ objects_get(db, k.arg) # {cache[k].val}

====
